---------------------------- MODULE Spec2Model ----------------------------
(***************************************************************************)
(* Model of the naev pilot core: the pilot registry (pilot.c), the per     *)
(* tick sweep pilots_update, damage, outfits, cargo and mass, and the AI   *)
(* think step (ai.c).                                                      *)
(*                                                                         *)
(* Numbers are integers: times are milliseconds, health, energy and mass   *)
(* are whole units, relative modifiers are percentages.                    *)
(***************************************************************************)
EXTENDS Integers, Sequences, FiniteSets, TLC

(***************************************************************************)
(* Bounds of the model.                                                    *)
(***************************************************************************)
MaxPilots == 2
MaxPasses == 2
MaxTasks == 1
TimerCap == 1200

(***************************************************************************)
(* Program constants.                                                      *)
(***************************************************************************)
PLAYER_ID == 1
PILOT_CHUNK == 32
MAX_AI_TIMERS == 2
PILOT_DISABLED_ARMOR == 30
HYPERSPACE_ENGINE_DELAY == 3000
HYPERSPACE_FLY_DELAY == 5000
HYPERSPACE_THRUST == 2000
HYPERSPACE_FUEL == 100
PILOT_REFUEL_TIME == 3000
NULL == 0

(***************************************************************************)
(* Small helpers.                                                          *)
(***************************************************************************)
MIN(a, b) == IF a < b THEN a ELSE b
MAX(a, b) == IF a > b THEN a ELSE b
CLAMP(lo, hi, x) == IF x < lo THEN lo ELSE IF x > hi THEN hi ELSE x
Range(s) == {s[k] : k \in 1..Len(s)}
RemoveAt(s, k) == [j \in 1..(Len(s) - 1) |-> IF j < k THEN s[j] ELSE s[j + 1]]
ISqrt(n) == CHOOSE r \in 0..n : r * r <= n /\ (r + 1) * (r + 1) > n

\* No call is followed.  Of a call that is, the history holds its name, its
\* arguments, the state it found, what it returned and, in prior, what the
\* history held of the call before it.
NoCall == [op |-> "none", arg |-> <<>>, before |-> <<>>, ret |-> 0, prior |-> <<>>]
Called(op, arg, before, ret) ==
  [op |-> op, arg |-> arg, before |-> before, ret |-> ret, prior |-> <<>>]
\* A timer that only ever runs down is kept at -TimerCap once it is below it;
\* the code compares timers with thresholds that are all above -TimerCap.
SatTimer(t) == IF t < -TimerCap THEN -TimerCap ELSE t
\* Body of the value v: a local name for a value that is computed once.
With(v, Body(_)) == Body(v)

(***************************************************************************)
(* Outfit templates (Outfit, outfit.h).  Inputs of the model.              *)
(***************************************************************************)
NoMod == [thrust |-> 0, thrust_rel |-> 0, turn |-> 0, turn_rel |-> 0,
          speed |-> 0, speed_rel |-> 0, armour |-> 0, armour_regen |-> 0,
          shield |-> 0, shield_regen |-> 0, energy |-> 0, energy_regen |-> 0,
          cargo |-> 0, mass_rel |-> 0, fuel |-> 0]
OutfitBase == [type |-> "null", mass |-> 0, cpu |-> 0, secondary |-> FALSE,
               delay |-> 0, energy |-> 0, ammo |-> "none", amount |-> 0,
               ai |-> 0, ship |-> "none", jam_range |-> 0, jam_chance |-> 0,
               mod |-> NoMod]
Outfits ==
  [laser   |-> [OutfitBase EXCEPT !.type = "bolt", !.mass = 1, !.cpu = 1,
                                  !.delay = 1000, !.energy = 2],
   beam    |-> [OutfitBase EXCEPT !.type = "beam", !.mass = 1, !.cpu = 1,
                                  !.delay = 1000, !.energy = 2],
   rack    |-> [OutfitBase EXCEPT !.type = "launcher", !.mass = 2, !.cpu = 1,
                                  !.secondary = TRUE, !.delay = 1000,
                                  !.ammo = "missile", !.amount = 2],
   missile |-> [OutfitBase EXCEPT !.type = "ammo", !.mass = 1, !.energy = 1],
   bay     |-> [OutfitBase EXCEPT !.type = "fighter_bay", !.mass = 3, !.cpu = 1,
                                  !.secondary = TRUE, !.delay = 1000,
                                  !.ammo = "drone", !.amount = 1],
   drone   |-> [OutfitBase EXCEPT !.type = "fighter", !.mass = 2,
                                  !.ship = "drone"],
   plating |-> [OutfitBase EXCEPT !.type = "modification", !.mass = 2,
                                  !.mod = [NoMod EXCEPT !.armour = 2,
                                                         !.mass_rel = 10,
                                                         !.cargo = -1]],
   burner  |-> [OutfitBase EXCEPT !.type = "afterburner", !.mass = 1,
                                  !.cpu = 1, !.energy = 4],
   thinhull |-> [OutfitBase EXCEPT !.type = "modification", !.mass = 1,
                                   !.mod = [NoMod EXCEPT !.armour = -6]],
   drain   |-> [OutfitBase EXCEPT !.type = "modification", !.mass = 1,
                                  !.cpu = 1,
                                  !.mod = [NoMod EXCEPT !.energy = -6]]]
OutfitNames == DOMAIN Outfits

outfit_isBolt(o) == Outfits[o].type \in {"bolt", "turret_bolt"}
outfit_isBeam(o) == Outfits[o].type \in {"beam", "turret_beam"}
outfit_isLauncher(o) == Outfits[o].type \in {"launcher", "turret_launcher"}
outfit_isAmmo(o) == Outfits[o].type \in {"ammo", "turret_ammo"}
outfit_isTurret(o) ==
  Outfits[o].type \in {"turret_bolt", "turret_beam", "turret_launcher"}
outfit_isWeapon(o) == Outfits[o].type \in {"bolt", "beam"}
outfit_isMod(o) == Outfits[o].type = "modification"
outfit_isAfterburner(o) == Outfits[o].type = "afterburner"
outfit_isJammer(o) == Outfits[o].type = "jammer"
outfit_isFighterBay(o) == Outfits[o].type = "fighter_bay"
outfit_isFighter(o) == Outfits[o].type = "fighter"
outfit_isSecondary(o) == Outfits[o].secondary
outfit_delay(o) == Outfits[o].delay
outfit_energy(o) == Outfits[o].energy
outfit_cpu(o) == Outfits[o].cpu
outfit_amount(o) == Outfits[o].amount
outfit_ammo(o) == Outfits[o].ammo
outfit_mass(o) == Outfits[o].mass

(***************************************************************************)
(* Ship templates (Ship, ship.h).  Inputs of the model.                    *)
(***************************************************************************)
Ships ==
  [llama |-> [mass |-> 10, thrust |-> 4, turn |-> 4, speed |-> 4, cpu |-> 4,
              armour |-> 10, shield |-> 4, energy |-> 4, fuel |-> 4,
              armour_regen |-> 0, shield_regen |-> 1, energy_regen |-> 1,
              cap_cargo |-> 3, outfit_nlow |-> 0, outfit_nmedium |-> 1,
              outfit_nhigh |-> 1],
   hawk  |-> [mass |-> 20, thrust |-> 4, turn |-> 4, speed |-> 4, cpu |-> 4,
              armour |-> 10, shield |-> 4, energy |-> 12, fuel |-> 4,
              armour_regen |-> 0, shield_regen |-> 1, energy_regen |-> 2,
              cap_cargo |-> 3, outfit_nlow |-> 0, outfit_nmedium |-> 1,
              outfit_nhigh |-> 2],
   drone |-> [mass |-> 2, thrust |-> 4, turn |-> 4, speed |-> 4, cpu |-> 1,
              armour |-> 2, shield |-> 1, energy |-> 2, fuel |-> 1,
              armour_regen |-> 0, shield_regen |-> 0, energy_regen |-> 1,
              cap_cargo |-> 0, outfit_nlow |-> 0, outfit_nmedium |-> 0,
              outfit_nhigh |-> 0],
   tanker |-> [mass |-> 20, thrust |-> 4, turn |-> 4, speed |-> 4, cpu |-> 4,
               armour |-> 10, shield |-> 4, energy |-> 4, fuel |-> 200,
               armour_regen |-> 0, shield_regen |-> 0, energy_regen |-> 0,
               cap_cargo |-> 0, outfit_nlow |-> 0, outfit_nmedium |-> 0,
               outfit_nhigh |-> 0]]
ShipNames == DOMAIN Ships
Commodities == {"food", "ore"}

(***************************************************************************)
(* The pilot object (Pilot) and its outfit slots (PilotOutfitSlot).        *)
(* A slot's outfit and ammo outfit are names of Outfits, "none" for NULL.  *)
(* secondary and afterburner are indices into outfits, NULL for none.      *)
(***************************************************************************)
RECURSIVE SeqSum(_)
SeqSum(s) == IF Len(s) = 0 THEN 0 ELSE Head(s) + SeqSum(Tail(s))

\* The timer of a slot is a double counted here in milliseconds.  A tick
\* length such as 0.1 s has no exact binary value, so a timer run down by it
\* ends at the exact value or a rounding error away from it: over tells that
\* the double lies just above timer.
EmptySlot(tier) ==
  [outfit |-> "none", slot |-> tier, state |-> "off", timer |-> 0,
   over |-> FALSE, quantity |-> 0, beamid |-> 0,
   ammo |-> [outfit |-> "none", quantity |-> 0, deployed |-> 0]]

\* The comparison s.timer > x of the doubles.
Above(s, x) == s.timer > x \/ (s.timer = x /\ s.over)

\* The comparison p->ptimer < x of the doubles: punder tells that the double
\* lies just below ptimer.
Below(p, x) == p.ptimer < x \/ (p.ptimer = x /\ p.punder)

pilot_isFlag(p, f) == f \in p.flags
pilot_setFlag(p, f) == [p EXCEPT !.flags = @ \cup {f}]
pilot_rmFlag(p, f) == [p EXCEPT !.flags = @ \ {f}]
pilot_isDisabled(p) == pilot_isFlag(p, "DISABLED")
pilot_set_fuel(p, fuel) == [p EXCEPT !.fuel = fuel]
pilot_set_target(p, id) == [p EXCEPT !.target = id]
\* The AI timers are counted from 0.
pilot_timer(p, n) == p.timer[n + 1]
pilot_set_timer(p, n, t) == [p EXCEPT !.timer[n + 1] = t]

\* pilot_updateMass: recomputes the turn rate from the solid's mass.
pilot_updateMass(p) ==
  [p EXCEPT !.turn = (p.turn_base * Ships[p.ship].mass) \div p.solid.mass]

pilot_cargoUsed(p) ==
  SeqSum([k \in 1..Len(p.commodities) |-> p.commodities[k].quantity])

pilot_cargoFree(p) == p.cargo_free

pilot_calcCargo(p) ==
  With(pilot_cargoUsed(p), LAMBDA used :
    pilot_updateMass(
      [p EXCEPT !.mass_cargo = used,
                !.cargo_free = Ships[p.ship].cap_cargo - used,
                !.solid.mass = Ships[p.ship].mass + used + p.mass_outfit]))

\* a * b with b a percentage.
Pct(a, b) == (a * b) \div 100

\* Contribution of slot k to a stat, as pilot_calcStats adds it up.
SlotMod(p, k, stat) ==
  LET sl == p.outfits[k]
  IN IF sl.outfit = "none" \/ ~outfit_isMod(sl.outfit) THEN 0
     ELSE LET m == Outfits[sl.outfit].mod
              sh == Ships[p.ship]
              q == sl.quantity
          IN CASE stat = "thrust" -> m.thrust * sh.mass * q + Pct(sh.thrust * q, m.thrust_rel)
               [] stat = "turn_base" -> m.turn * q + Pct(sh.turn * q, m.turn_rel)
               [] stat = "speed" -> m.speed * q + Pct(sh.speed * q, m.speed_rel)
               [] stat = "armour_max" -> m.armour * q
               [] stat = "armour_regen" -> m.armour_regen * q
               [] stat = "shield_max" -> m.shield * q
               [] stat = "shield_regen" -> m.shield_regen * q
               [] stat = "energy_max" -> m.energy * q
               [] stat = "energy_regen" -> m.energy_regen * q
               [] stat = "fuel_max" -> m.fuel * q
               [] stat = "cargo_free" -> m.cargo * q
               [] stat = "mass_outfit" -> Pct(sh.mass * q, m.mass_rel)

StatNames ==
  {"thrust", "turn_base", "speed", "armour_max", "armour_regen", "shield_max",
   "shield_regen", "energy_max", "energy_regen", "fuel_max", "cargo_free",
   "mass_outfit"}

ModSum(p, stat) == SeqSum([k \in 1..Len(p.outfits) |-> SlotMod(p, k, stat)])

\* Mass a slot adds to mass_outfit: the outfit, its relative mass and its ammo.
SlotMass(p, k) ==
  LET sl == p.outfits[k]
  IN IF sl.outfit = "none" THEN 0
     ELSE outfit_mass(sl.outfit) + SlotMod(p, k, "mass_outfit")
          + (IF outfit_ammo(sl.outfit) # "none" /\ sl.ammo.outfit # "none"
             THEN sl.ammo.quantity * outfit_mass(sl.ammo.outfit) ELSE 0)

SlotCpu(p, k) ==
  LET sl == p.outfits[k]
  IN IF sl.outfit = "none" THEN 0 ELSE outfit_cpu(sl.outfit) * sl.quantity

SlotJamEnergy(p, k) ==
  LET sl == p.outfits[k]
  IN IF sl.outfit # "none" /\ outfit_isJammer(sl.outfit)
     THEN outfit_energy(sl.outfit) ELSE 0

\* The last slot holding an afterburner, or the old reference when none does.
CalcAfterburner(p) ==
  LET ab == {k \in 1..Len(p.outfits) :
               p.outfits[k].outfit # "none" /\ outfit_isAfterburner(p.outfits[k].outfit)}
  IN IF ab = {} THEN p.afterburner ELSE CHOOSE k \in ab : \A j \in ab : j <= k

\* pilot_calcStats: every derived stat from the ship and the equipped outfits;
\* the fill of armour, shield, energy and fuel is carried over by proportion.
pilot_calcStats(p) ==
  LET sh == Ships[p.ship]
      n == Len(p.outfits)
  IN With(pilot_calcCargo([p EXCEPT !.solid.mass = sh.mass]), LAMBDA c :
     With([s \in StatNames |-> ModSum(p, s)], LAMBDA mod :
     With(SeqSum([k \in 1..n |-> SlotMass(p, k)]), LAMBDA mout :
       pilot_updateMass(
         [c EXCEPT
            !.thrust = sh.thrust + mod["thrust"],
            !.turn_base = sh.turn + mod["turn_base"],
            !.speed = sh.speed + mod["speed"],
            !.cpu = sh.cpu - SeqSum([k \in 1..n |-> SlotCpu(p, k)]),
            !.cpu_max = sh.cpu - SeqSum([k \in 1..n |-> MIN(0, SlotCpu(p, k))]),
            !.armour_max = sh.armour + mod["armour_max"],
            !.shield_max = sh.shield + mod["shield_max"],
            !.energy_max = sh.energy + mod["energy_max"],
            !.fuel_max = sh.fuel + mod["fuel_max"],
            !.armour_regen = sh.armour_regen + mod["armour_regen"],
            !.shield_regen = sh.shield_regen + mod["shield_regen"],
            !.energy_regen = sh.energy_regen + mod["energy_regen"]
                             - SeqSum([k \in 1..n |-> SlotJamEnergy(p, k)]),
            !.cargo_free = c.cargo_free + mod["cargo_free"],
            !.mass_outfit = mout,
            !.afterburner = CalcAfterburner(p),
            !.armour = (p.armour * (sh.armour + mod["armour_max"])) \div p.armour_max,
            !.shield = (p.shield * (sh.shield + mod["shield_max"])) \div p.shield_max,
            !.energy = (p.energy * (sh.energy + mod["energy_max"])) \div p.energy_max,
            !.fuel = (p.fuel * (sh.fuel + mod["fuel_max"])) \div p.fuel_max,
            !.solid.mass = sh.mass + c.mass_cargo + mout]))))

\* pilot_clearTimers
pilot_clearTimers(p) ==
  [p EXCEPT !.ptimer = 0, !.punder = FALSE, !.tcontrol = 0,
            !.timer = [k \in 1..MAX_AI_TIMERS |-> 0],
            !.outfits = [k \in 1..Len(p.outfits) |->
                           IF Above(p.outfits[k], 0)
                           THEN [p.outfits[k] EXCEPT !.timer = 0, !.over = FALSE]
                           ELSE p.outfits[k]]]

\* Memory of a Pilot that is not allocated (mem = "unalloc") or was released
\* by pilot_free (mem = "freed"); memset(pilot, 0, sizeof(Pilot)) otherwise.
ZeroPilot ==
  [mem |-> "unalloc", id |-> 0, ship |-> "none", flags |-> {},
   solid |-> [mass |-> 0, force_x |-> 0, dir_vel |-> 0],
   cpu |-> 0, cpu_max |-> 0, thrust |-> 0, speed |-> 0, turn |-> 0, turn_base |-> 0,
   armour |-> 0, shield |-> 0, energy |-> 0, fuel |-> 0,
   armour_max |-> 0, shield_max |-> 0, energy_max |-> 0, fuel_max |-> 0,
   armour_regen |-> 0, shield_regen |-> 0, energy_regen |-> 0,
   think |-> "none", update |-> "none", outfits |-> <<>>,
   secondary |-> NULL, afterburner |-> NULL,
   commodities |-> <<>>, cargo_free |-> 0, mass_cargo |-> 0, mass_outfit |-> 0,
   ptimer |-> 0, punder |-> FALSE, tcontrol |-> 0,
   timer |-> [k \in 1..MAX_AI_TIMERS |-> 0],
   target |-> 0, ai |-> FALSE, task |-> <<>>, escorts |-> <<>>]

\* pilot_init up to the AI set-up: identity, stats from the ship, empty
\* slots, think and update functions, flags and timers.
pilot_init(id, ship, flags) ==
  LET sh == Ships[ship]
      p0 == [ZeroPilot EXCEPT
               !.mem = "live", !.id = id, !.ship = ship,
               !.solid.mass = sh.mass,
               !.armour = 1, !.armour_max = 1, !.shield = 1, !.shield_max = 1,
               !.energy = 1, !.energy_max = 1, !.fuel = 1, !.fuel_max = 1]
      p1 == pilot_calcStats(p0)
      p2 == [p1 EXCEPT
               !.outfits = [k \in 1..sh.outfit_nlow |-> EmptySlot("low")]
                           \o [k \in 1..sh.outfit_nmedium |-> EmptySlot("medium")]
                           \o [k \in 1..sh.outfit_nhigh |-> EmptySlot("high")],
               !.cargo_free = sh.cap_cargo]
      p3 == pilot_calcStats(p2)
      p4 == [p3 EXCEPT
               !.think = IF "PLAYER" \in flags THEN "player_think" ELSE "ai_think",
               !.update = IF "PLAYER" \in flags THEN "player_update"
                          ELSE "pilot_update",
               !.flags = (flags \cap {"PLAYER", "HYP_END", "ESCORT"})
                         \cup (IF "ESCORT" \in flags THEN flags \cap {"CARRIED"}
                               ELSE {})]
  IN [pilot_clearTimers(p4) EXCEPT !.target = id]
(***************************************************************************)
(* Outfits and ammunition.  An operation that returns a value yields       *)
(* [p |-> the pilot afterwards, ret |-> the value].                        *)
(***************************************************************************)
\* pilot_addOutfitRaw
pilot_addOutfitRaw(p, outfit, s) ==
  LET s1 == [p.outfits[s] EXCEPT !.outfit = outfit, !.quantity = 1, !.timer = 0,
                                   !.over = FALSE]
      s2 == IF outfit_isFighterBay(outfit)
            THEN [s1 EXCEPT !.ammo = [outfit |-> "none", quantity |-> 0, deployed |-> 0]]
            ELSE s1
      s3 == IF outfit_isBeam(outfit) THEN [s2 EXCEPT !.beamid = -1] ELSE s2
      s4 == IF outfit_isLauncher(outfit)
            THEN [s3 EXCEPT !.ammo = [outfit |-> "none", quantity |-> 0, deployed |-> 0]]
            ELSE s3
      f == (IF outfit_isTurret(outfit) THEN {"HASTURRET"} ELSE {})
           \cup (IF outfit_isBeam(outfit) THEN {"HASBEAMS"} ELSE {})
  IN [p EXCEPT !.outfits[s] = s4, !.flags = @ \cup f]

\* pilot_checkSanity: "ok" when the stats are sane, the complaint otherwise.
pilot_checkSanity(p) ==
  CASE p.cpu < 0 -> "Negative CPU"
    [] p.thrust < 0 -> "Negative Thrust"
    [] p.speed < 0 -> "Negative Speed"
    [] p.turn < 0 -> "Negative Turn"
    [] p.armour_max < 0 -> "Negative Armour"
    [] p.armour_regen < 0 -> "Negative Armour Regeneration"
    [] p.shield_max < 0 -> "Negative Shield"
    [] p.shield_regen < 0 -> "Negative Shield Regeneration"
    [] p.energy_max < 0 -> "Negative Energy"
    [] p.energy_regen < 0 -> "Negative Energy Regeneration"
    [] p.fuel_max < 0 -> "Negative Fuel Maximum"
    [] OTHER -> "ok"

\* The net change an outfit's modification makes to a stat of pilot p.
ModNet(p, o, stat) ==
  LET m == Outfits[o].mod
      sh == Ships[p.ship]
  IN CASE stat = "thrust" -> m.thrust + Pct(sh.thrust, m.thrust_rel)
       [] stat = "speed" -> m.speed + Pct(sh.speed, m.speed_rel)
       [] stat = "turn" -> m.turn + Pct(sh.turn, m.turn_rel)

Abs(x) == IF x < 0 THEN -x ELSE x

\* pilot_canEquip: "ok" when the change is allowed, the reason otherwise.
pilot_canEquip(p, s, o, add) ==
  LET m == Outfits[o].mod
  IN IF o = "none" THEN "Nothing selected."
     ELSE IF add THEN
       CASE outfit_cpu(o) > 0 /\ p.cpu < outfit_cpu(o) -> "Insufficient CPU"
         [] outfit_isAfterburner(o) /\ p.afterburner # NULL -> "Already have an afterburner"
         [] outfit_isMod(o) /\ ModNet(p, o, "thrust") < 0
              /\ Abs(ModNet(p, o, "thrust")) > p.thrust -> "Insufficient thrust"
         [] outfit_isMod(o) /\ ModNet(p, o, "speed") < 0
              /\ Abs(ModNet(p, o, "speed")) > p.speed -> "Insufficient speed"
         [] outfit_isMod(o) /\ ModNet(p, o, "turn") < 0
              /\ Abs(ModNet(p, o, "turn")) > p.turn -> "Insufficient turn"
         [] outfit_isMod(o) /\ m.armour < 0 /\ Abs(m.armour) > p.armour_max -> "Insufficient armour"
         [] outfit_isMod(o) /\ m.shield < 0 /\ Abs(m.shield) > p.shield_max -> "Insufficient shield"
         [] outfit_isMod(o) /\ m.energy < 0 /\ Abs(m.energy) > p.armour_max -> "Insufficient energy"
         [] outfit_isMod(o) /\ m.armour_regen < 0
              /\ Abs(m.armour_regen) > p.armour_regen -> "Insufficient energy regeneration"
         [] outfit_isMod(o) /\ m.shield_regen < 0
              /\ Abs(m.shield_regen) > p.shield_regen -> "Insufficient shield regeneration"
         [] outfit_isMod(o) /\ m.energy_regen < 0
              /\ Abs(m.energy_regen) > p.energy_regen -> "Insufficient energy regeneration"
         [] outfit_isMod(o) /\ m.fuel < 0 /\ Abs(m.fuel) > p.fuel_max -> "Insufficient fuel"
         [] outfit_isMod(o) /\ m.cargo < 0 /\ Abs(m.cargo) > p.cargo_free -> "Insufficient cargo space"
         [] OTHER -> "ok"
     ELSE
       CASE outfit_cpu(o) < 0 /\ p.cpu < Abs(outfit_cpu(o)) -> "Lower CPU usage first"
         [] outfit_isMod(o) /\ ModNet(p, o, "thrust") > 0
              /\ ModNet(p, o, "thrust") > p.thrust -> "Increase thrust first"
         [] outfit_isMod(o) /\ ModNet(p, o, "speed") > 0
              /\ ModNet(p, o, "speed") > p.speed -> "Increase speed first"
         [] outfit_isMod(o) /\ ModNet(p, o, "turn") > 0
              /\ ModNet(p, o, "turn") > p.turn -> "Increase turn first"
         [] outfit_isMod(o) /\ m.armour > 0 /\ m.armour > p.armour_max -> "Increase armour first"
         [] outfit_isMod(o) /\ m.shield > 0 /\ m.shield > p.shield_max -> "Increase shield first"
         [] outfit_isMod(o) /\ m.energy > 0 /\ m.energy > p.energy_max -> "Increase energy first"
         [] outfit_isMod(o) /\ m.armour_regen > 0
              /\ m.armour_regen > p.armour_regen -> "Lower energy usage first"
         [] outfit_isMod(o) /\ m.shield_regen > 0
              /\ m.shield_regen > p.shield_regen -> "Lower shield usage first"
         [] outfit_isMod(o) /\ m.energy_regen > 0
              /\ m.energy_regen > p.energy_regen -> "Lower energy usage first"
         [] outfit_isMod(o) /\ m.fuel > 0 /\ m.fuel > p.fuel_max -> "Increase fuel first"
         [] outfit_isMod(o) /\ m.cargo > 0 /\ m.cargo > p.cargo_free -> "Increase free cargo space first"
         [] outfit_isFighterBay(o) /\ p.outfits[s].ammo.deployed > 0 -> "Recall the fighters first"
         [] OTHER -> "ok"

\* pilot_addOutfitTest: 0 when the outfit can be added, -1 otherwise.
pilot_addOutfitTest(p, outfit, s) ==
  IF p.outfits[s].outfit # "none" THEN -1
  ELSE IF outfit_cpu(outfit) > 0 /\ p.cpu < outfit_cpu(outfit) THEN -1
  ELSE IF pilot_canEquip(p, s, outfit, TRUE) # "ok" THEN -1
  ELSE 0

\* pilot_addOutfit with the outfit put in its slot before the test is looked
\* at.
pilot_addOutfit_eager(p, outfit, s) ==
  [p |-> pilot_calcStats(pilot_addOutfitRaw(p, outfit, s)),
   ret |-> pilot_addOutfitTest(p, outfit, s)]

\* pilot_addOutfit
pilot_addOutfit(p, outfit, s) ==
  IF pilot_addOutfitTest(p, outfit, s) # 0 THEN [p |-> p, ret |-> -1]
  ELSE [p |-> pilot_calcStats(pilot_addOutfitRaw(p, outfit, s)), ret |-> 0]

\* pilot_rmOutfitRaw: returns 1 when the slot was already empty.
pilot_rmOutfitRaw(p, s) ==
  [p |-> [p EXCEPT !.outfits[s].outfit = "none",
                   !.secondary = IF @ = s THEN NULL ELSE @,
                   !.afterburner = IF @ = s THEN NULL ELSE @],
   ret |-> IF p.outfits[s].outfit = "none" THEN 1 ELSE 0]

\* pilot_rmOutfit
pilot_rmOutfit(p, s) ==
  IF pilot_canEquip(p, s, p.outfits[s].outfit, FALSE) # "ok"
  THEN [p |-> p, ret |-> -1]
  ELSE LET r == pilot_rmOutfitRaw(p, s)
       IN [p |-> pilot_calcStats(r.p), ret |-> r.ret]

\* A variant of pilot_addAmmo that leaves the deployed fighters out of the
\* room it reckons with.
pilot_addAmmo_undeployed(p, s, ammo, quantity) ==
  LET sl == p.outfits[s]
  IN IF \/ sl.outfit = "none"
        \/ ~outfit_isLauncher(sl.outfit) /\ ~outfit_isFighterBay(sl.outfit)
        \/ ~outfit_isAmmo(ammo) /\ ~outfit_isFighter(ammo)
     THEN [p |-> p, ret |-> 0]
     ELSE LET newq == MIN(outfit_amount(sl.outfit), sl.ammo.quantity + quantity)
          IN [p |-> [p EXCEPT !.outfits[s].ammo.outfit = ammo,
                              !.outfits[s].ammo.quantity = newq],
              ret |-> newq - sl.ammo.quantity]

\* pilot_addAmmo: returns the amount actually added.
pilot_addAmmo(p, s, ammo, quantity) ==
  LET sl == p.outfits[s]
  IN IF \/ sl.outfit = "none"
        \/ ~outfit_isLauncher(sl.outfit) /\ ~outfit_isFighterBay(sl.outfit)
        \/ ~outfit_isAmmo(ammo) /\ ~outfit_isFighter(ammo)
        \/ outfit_isLauncher(sl.outfit) /\ outfit_isFighter(ammo)
        \/ outfit_isFighterBay(sl.outfit) /\ outfit_isAmmo(ammo)
        \/ sl.ammo.outfit # "none" /\ sl.ammo.quantity > 0 /\ sl.ammo.outfit # ammo
     THEN [p |-> p, ret |-> 0]
     ELSE LET newq == MIN(outfit_amount(sl.outfit) - sl.ammo.deployed,
                          sl.ammo.quantity + quantity)
              q == newq - sl.ammo.quantity
              p1 == [p EXCEPT !.outfits[s].ammo.outfit = ammo,
                              !.outfits[s].ammo.quantity = newq,
                              !.mass_outfit = @ + q * outfit_mass(ammo)]
          IN [p |-> pilot_updateMass(p1), ret |-> q]

\* pilot_rmAmmo: returns the amount actually removed.
pilot_rmAmmo(p, s, quantity) ==
  LET sl == p.outfits[s]
  IN IF \/ sl.outfit = "none"
        \/ ~outfit_isLauncher(sl.outfit) /\ ~outfit_isFighterBay(sl.outfit)
        \/ sl.ammo.outfit = "none"
     THEN [p |-> p, ret |-> 0]
     ELSE LET q == MIN(quantity, sl.ammo.quantity)
              p1 == [p EXCEPT !.outfits[s].ammo.quantity = @ - q,
                              !.mass_outfit = @ - q * outfit_mass(sl.ammo.outfit)]
          IN [p |-> pilot_updateMass(p1), ret |-> q]

(***************************************************************************)
(* Cargo.  A ledger entry is [commodity, quantity, id]; id 0 is ordinary   *)
(* cargo, any other id is mission cargo.                                   *)
(***************************************************************************)
\* Index of the first ordinary entry of this commodity, 0 when there is none.
FindCargo(p, cargo, mission_too) ==
  LET hits == {k \in 1..Len(p.commodities) :
                 /\ p.commodities[k].commodity = cargo
                 /\ (mission_too \/ p.commodities[k].id = 0)}
  IN IF hits = {} THEN 0 ELSE CHOOSE k \in hits : \A j \in hits : k <= j

\* pilot_addCargoRaw: returns the quantity actually added.
pilot_addCargoRaw(p, cargo, quantity, id) ==
  LET f == pilot_cargoFree(p)
      q == IF f < quantity THEN f ELSE quantity
      k == IF id = 0 THEN FindCargo(p, cargo, FALSE) ELSE 0
      led == IF k # 0
             THEN [p.commodities EXCEPT ![k].quantity = @ + q]
             ELSE Append(p.commodities,
                         [commodity |-> cargo, quantity |-> q, id |-> id])
      p1 == [p EXCEPT !.commodities = led,
                      !.cargo_free = @ - q,
                      !.mass_cargo = @ + q,
                      !.solid.mass = @ + q]
  IN [p |-> pilot_updateMass(p1), ret |-> q]

\* pilot_addCargo
pilot_addCargo(p, cargo, quantity) == pilot_addCargoRaw(p, cargo, quantity, 0)

\* pilot_addMissionCargo: mcid is the mission_cargo_id generator before the
\* call; returns the pilot, the cargo id given and the generator afterwards.
pilot_addMissionCargo(p, cargo, quantity, mcid) ==
  LET ids == {p.commodities[k].id : k \in 1..Len(p.commodities)} \cup {0}
      max_id == CHOOSE m \in ids : \A j \in ids : j <= m
      gen == IF max_id > mcid + 1 THEN max_id ELSE mcid + 1
      id == gen + 1
  IN [p |-> pilot_addCargoRaw(p, cargo, quantity, id).p, ret |-> id, mcid |-> id]

\* pilot_rmMissionCargo: returns 0 when the cargo was removed, 1 when the
\* pilot does not hold it.
pilot_rmMissionCargo(p, cargo_id) ==
  LET hits == {k \in 1..Len(p.commodities) : p.commodities[k].id = cargo_id}
  IN IF hits = {} THEN [p |-> p, ret |-> 1]
     ELSE LET k == CHOOSE i \in hits : \A j \in hits : i <= j
              q == p.commodities[k].quantity
              p1 == [p EXCEPT !.commodities = RemoveAt(@, k),
                              !.cargo_free = @ + q,
                              !.mass_cargo = @ - q,
                              !.solid.mass = @ - q]
          IN [p |-> pilot_updateMass(p1), ret |-> 0]

\* A variant of pilot_rmCargoRaw that gives no space back for an entry it
\* removes whole.
pilot_rmCargoRaw_kept(p, cargo, quantity, cleanup) ==
  LET k == FindCargo(p, cargo, cleanup)
  IN IF k = 0 THEN [p |-> p, ret |-> 0]
     ELSE LET all == quantity >= p.commodities[k].quantity
              q == IF all THEN p.commodities[k].quantity ELSE quantity
              led == IF all THEN RemoveAt(p.commodities, k)
                     ELSE [p.commodities EXCEPT ![k].quantity = @ - q]
              p1 == [p EXCEPT !.commodities = led,
                              !.cargo_free = IF all THEN @ ELSE @ + q,
                              !.mass_cargo = @ - q,
                              !.solid.mass = @ - q]
          IN [p |-> pilot_updateMass(p1), ret |-> q]

\* pilot_rmCargoRaw: returns the quantity actually removed.
pilot_rmCargoRaw(p, cargo, quantity, cleanup) ==
  LET k == FindCargo(p, cargo, cleanup)
  IN IF k = 0 THEN [p |-> p, ret |-> 0]
     ELSE LET all == quantity >= p.commodities[k].quantity
              q == IF all THEN p.commodities[k].quantity ELSE quantity
              led == IF all THEN RemoveAt(p.commodities, k)
                     ELSE [p.commodities EXCEPT ![k].quantity = @ - q]
              p1 == [p EXCEPT !.commodities = led,
                              !.cargo_free = @ + q,
                              !.mass_cargo = @ - q,
                              !.solid.mass = @ - q]
          IN [p |-> pilot_updateMass(p1), ret |-> q]

\* pilot_rmCargo
pilot_rmCargo(p, cargo, quantity) == pilot_rmCargoRaw(p, cargo, quantity, FALSE)

\* pilot_moveCargo: the source ledger is copied over the head of the enlarged
\* destination ledger; cells of the enlargement the copy does not reach keep
\* whatever the allocator left there, given here as junk[k].
pilot_moveCargo(dest, src, junk) ==
  LET ns == Len(src.commodities)
      nd == Len(dest.commodities)
  IN IF ns = 0 THEN [dest |-> dest, src |-> src, ret |-> 0]
     ELSE IF pilot_cargoUsed(src) > pilot_cargoFree(dest)
     THEN [dest |-> dest, src |-> src, ret |-> -1]
     ELSE [dest |-> [dest EXCEPT !.commodities =
                       [k \in 1..(nd + ns) |->
                          IF k <= ns THEN src.commodities[k]
                          ELSE IF k <= nd THEN dest.commodities[k]
                          ELSE junk[k]]],
           src |-> [src EXCEPT !.commodities = <<>>],
           ret |-> 0]

(***************************************************************************)
(* Weapons.  The weapon slots are the high slots, in slot order.           *)
(***************************************************************************)
HighSlots(p) == {k \in 1..Len(p.outfits) : p.outfits[k].slot = "high"}

\* A variant in which no slot shares its rate with another.
RationSlots_self(p, w) == {w}

\* The slots pilot_shootWeapon counts as sharing the rate of slot w.
RationSlots(p, w) ==
  LET wo == p.outfits[w]
  IN {k \in HighSlots(p) :
        /\ p.outfits[k].outfit # "none"
        /\ outfit_delay(p.outfits[k].outfit) = outfit_delay(wo.outfit)
        /\ ~(outfit_isLauncher(wo.outfit)
             /\ (wo.ammo.outfit = "none" \/ wo.ammo.quantity <= 0))}

\* pilot_shootWeapon: spawn tells what the shot put into the world.
pilot_shootWeapon(p, w) ==
  LET wo == p.outfits[w]
      o == wo.outfit
      noammo == wo.ammo.outfit = "none" \/ wo.ammo.quantity <= 0
      fired(p1) == [p1 EXCEPT !.outfits[w].timer = @ + outfit_delay(o)]
      quiet == [p |-> p, spawn |-> "none"]
  IN IF Above(wo, 0) THEN quiet
     ELSE IF ~outfit_isBeam(o) /\ RationSlots(p, w) = {} THEN quiet
     ELSE IF ~outfit_isBeam(o) /\ With(RationSlots(p, w), LAMBDA rs :
               \E m \in rs :
                 /\ \A k \in rs :
                      \/ p.outfits[k].timer < p.outfits[m].timer
                      \/ /\ p.outfits[k].timer = p.outfits[m].timer
                         /\ p.outfits[m].over \/ ~p.outfits[k].over
                 /\ Above([timer |-> p.outfits[m].timer * Cardinality(rs),
                           over |-> p.outfits[m].over],
                          outfit_delay(o) * (Cardinality(rs) - 1)))
       THEN quiet
     ELSE IF outfit_isBolt(o)
       THEN IF outfit_energy(o) > p.energy THEN quiet
            ELSE [p |-> fired([p EXCEPT !.energy = @ - outfit_energy(o)]),
                  spawn |-> "bolt"]
     ELSE IF outfit_isBeam(o)
       THEN IF outfit_energy(o) > p.energy THEN quiet
            ELSE [p |-> fired([p EXCEPT !.outfits[w].state = "on",
                                        !.outfits[w].beamid = 1]),
                  spawn |-> "beam"]
     ELSE IF outfit_isLauncher(o)
       THEN IF Outfits[outfit_ammo(o)].ai > 0 /\ p.id = p.target THEN quiet
            ELSE IF noammo THEN quiet
            ELSE IF outfit_energy(wo.ammo.outfit) > p.energy THEN quiet
            ELSE [p |-> fired(pilot_updateMass(
                          [p EXCEPT !.energy = @ - outfit_energy(wo.ammo.outfit),
                                    !.outfits[w].ammo.quantity = @ - 1,
                                    !.mass_outfit = @ - outfit_mass(wo.ammo.outfit)])),
                  spawn |-> "ammo"]
     ELSE IF outfit_isFighterBay(o)
       THEN IF noammo THEN quiet
            ELSE [p |-> fired(pilot_updateMass(
                          [p EXCEPT !.outfits[w].ammo.quantity = @ - 1,
                                    !.outfits[w].ammo.deployed = @ + 1,
                                    !.mass_outfit = @ - outfit_mass(wo.ammo.outfit)])),
                  spawn |-> wo.ammo.outfit]
     ELSE [p |-> fired(p), spawn |-> "none"]

\* Fires the slots of sq in order; the spawns are collected in order.
RECURSIVE ShootSlots(_, _, _)
ShootSlots(p, sq, spawns) ==
  IF sq = <<>> THEN [p |-> p, spawns |-> spawns]
  ELSE With(pilot_shootWeapon(p, Head(sq)), LAMBDA r :
         ShootSlots(r.p, Tail(sq),
                    IF r.spawn = "none" THEN spawns ELSE Append(spawns, r.spawn)))

\* The members of a set of slot indices in ascending order.
RECURSIVE Ascending(_)
Ascending(S) ==
  IF S = {} THEN <<>>
  ELSE LET m == CHOOSE k \in S : \A j \in S : k <= j
       IN <<m>> \o Ascending(S \ {m})

\* pilot_shoot
pilot_shoot(p, group) ==
  ShootSlots(p,
    Ascending({k \in HighSlots(p) :
      LET o == p.outfits[k].outfit
      IN /\ o # "none"
         /\ ~outfit_isSecondary(o)
         /\ (outfit_isBolt(o) \/ outfit_isBeam(o) \/ outfit_isLauncher(o))
         /\ (group = 0 \/ (group = 1 /\ outfit_isTurret(o))
                       \/ (group = 2 /\ ~outfit_isTurret(o)))}),
    <<>>)

\* pilot_shootSecondary
pilot_shootSecondary(p) ==
  IF p.secondary = NULL THEN [p |-> p, spawns |-> <<>>]
  ELSE ShootSlots(p,
         Ascending({k \in HighSlots(p) :
                      p.outfits[k].outfit = p.outfits[p.secondary].outfit}),
         <<>>)

\* pilot_shootStop: the beams of the primary or of the secondary weapon end.
pilot_shootStop(p, secondary) ==
  IF secondary /\ (\/ p.secondary = NULL
                   \/ p.outfits[p.secondary].outfit = "none"
                   \/ ~outfit_isBeam(p.outfits[p.secondary].outfit))
  THEN p
  ELSE [p EXCEPT !.outfits =
          [k \in 1..Len(p.outfits) |->
             IF /\ k \in HighSlots(p)
                /\ p.outfits[k].outfit # "none"
                /\ outfit_isBeam(p.outfits[k].outfit)
                /\ IF secondary
                   THEN p.outfits[k].outfit = p.outfits[p.secondary].outfit
                   ELSE ~outfit_isSecondary(p.outfits[k].outfit)
                /\ p.outfits[k].beamid > 0
             THEN [p.outfits[k] EXCEPT !.beamid = 0]
             ELSE p.outfits[k]]]

\* A pointer to slot s of the pilot at a, held by another pilot: a number
\* that is no slot index.
SlotOf(a, s) == 10 * a + s

\* pilot_switchSecondary for the pilot at a and its slot s, with a player in
\* place.
pilot_switchSecondary(w, a, s) ==
  [w EXCEPT !.pilots[a] = pilot_shootStop(@, TRUE),
            !.pilots[w.player].secondary = IF a = w.player THEN s ELSE SlotOf(a, s)]

(***************************************************************************)
(* Damage and death.                                                       *)
(***************************************************************************)
\* pilot_setThrust, pilot_setTurn
pilot_setThrust(p, thrust) == [p EXCEPT !.solid.force_x = p.thrust * thrust]
pilot_setTurn(p, turn) == [p EXCEPT !.solid.dir_vel = p.turn * turn]

\* pilot_isHostile; fenemy says whether the pilot's faction is at war with
\* the player's.
pilot_isHostile(p, fenemy) ==
  ~pilot_isFlag(p, "FRIENDLY") /\ (pilot_isFlag(p, "HOSTILE") \/ fenemy)

\* pilot_setHostile and pilot_rmHostile act on the pilot and on the counter
\* player_enemies.
pilot_setHostile(p, enemies) ==
  IF ~pilot_isFlag(p, "HOSTILE")
  THEN [p |-> pilot_setFlag(p, "HOSTILE"), enemies |-> enemies + 1]
  ELSE [p |-> p, enemies |-> enemies]

pilot_rmHostile(p, enemies) ==
  IF pilot_isFlag(p, "HOSTILE")
  THEN [p |-> pilot_rmFlag(p, "HOSTILE"),
        enemies |-> MAX(0, IF ~pilot_isDisabled(p) THEN enemies - 1 ELSE enemies)]
  ELSE [p |-> p, enemies |-> enemies]

\* pilot_setFriendly
pilot_setFriendly(p, enemies) ==
  With(pilot_rmHostile(p, enemies), LAMBDA rh :
    [p |-> pilot_setFlag(rh.p, "FRIENDLY"), enemies |-> rh.enemies])

\* A variant of pilot_dead that starts the death sequence over for a pilot
\* that is already in it.
pilot_dead_again(p) ==
  [p EXCEPT !.timer = [k \in 1..MAX_AI_TIMERS |->
                         IF k <= 2 THEN 0 ELSE p.timer[k]],
            !.ptimer = 1000 + (2 * ISqrt(10 * p.armour_max * p.shield_max)) \div 3,
            !.punder = FALSE,
            !.flags = (@ \ {"HYP_PREP", "HYP_BEGIN", "HYPERSPACE"}) \cup {"DEAD"}]

\* pilot_dead: starts the death sequence; the explosion delay is in ms.
pilot_dead(p) ==
  IF pilot_isFlag(p, "DEAD") THEN p
  ELSE [p EXCEPT !.timer = [k \in 1..MAX_AI_TIMERS |->
                              IF k <= 2 THEN 0 ELSE p.timer[k]],
                 !.ptimer = 1000 + (2 * ISqrt(10 * p.armour_max * p.shield_max)) \div 3,
                 !.punder = FALSE,
                 !.flags = (@ \ {"HYP_PREP", "HYP_BEGIN", "HYPERSPACE"}) \cup {"DEAD"}]

\* The variant of HitDead that starts the death sequence and forgets to
\* reset the armour.
HitDead_unclamped(p) ==
  IF p.armour <= 0 THEN pilot_dead(p) ELSE p

\* pilot_hit, "officially dead": armour at or below zero is reset to zero and
\* the death sequence starts unless it already has.
HitDead(p) ==
  IF p.armour <= 0 THEN pilot_dead([p EXCEPT !.armour = 0]) ELSE p

\* A variant of the blow that a disabled pilot feels whatever its kind.
HitBlow_felt(p, dtype, damage_shield, damage_armour) ==
  LET part == ((damage_shield - p.shield) * damage_armour) \div damage_shield
  IN IF p.shield - damage_shield > 0
       THEN [p |-> [p EXCEPT !.shield = @ - damage_shield], dmg |-> damage_shield]
     ELSE IF p.shield > 0
       THEN [p |-> [p EXCEPT !.armour = @ - part, !.shield = 0],
             dmg |-> p.shield + part]
     ELSE IF p.armour > 0
       THEN [p |-> [p EXCEPT !.armour = @ - damage_armour], dmg |-> damage_armour]
     ELSE [p |-> p, dmg |-> 0]

\* pilot_hit, the blow: the shield takes it whole, the shield takes a part
\* and the armour the rest, or the armour takes it whole.
HitBlow(p, dtype, damage_shield, damage_armour) ==
  LET part == ((damage_shield - p.shield) * damage_armour) \div damage_shield
  IN IF pilot_isDisabled(p) /\ dtype = "emp" THEN [p |-> p, dmg |-> 0]
     ELSE IF p.shield - damage_shield > 0
       THEN [p |-> [p EXCEPT !.shield = @ - damage_shield], dmg |-> damage_shield]
     ELSE IF p.shield > 0
       THEN [p |-> [p EXCEPT !.armour = @ - part, !.shield = 0],
             dmg |-> p.shield + part]
     ELSE IF p.armour > 0
       THEN [p |-> [p EXCEPT !.armour = @ - damage_armour], dmg |-> damage_armour]
     ELSE [p |-> p, dmg |-> 0]

\* A variant of the disabling that takes a pilot already disabled through
\* it again.
HitDisable_again(p, is_player, enemies, fenemy) ==
  IF /\ ~is_player
     /\ p.armour * 100 < PILOT_DISABLED_ARMOR * Ships[p.ship].armour
  THEN With(pilot_rmHostile(p, enemies), LAMBDA rh :
         [p |-> pilot_setFlag(rh.p, "DISABLED"),
          enemies |-> rh.enemies,
          disabled |-> TRUE])
  ELSE [p |-> p, enemies |-> enemies, disabled |-> FALSE]

\* pilot_hit, "disabled": a pilot other than the player's whose armour fell
\* below PILOT_DISABLED_ARMOR of its ship's is disabled.
HitDisable(p, is_player, enemies, fenemy) ==
  IF /\ ~pilot_isFlag(p, "DISABLED")
     /\ ~is_player
     /\ p.armour * 100 < PILOT_DISABLED_ARMOR * Ships[p.ship].armour
  THEN With(pilot_rmHostile(p, enemies), LAMBDA rh :
         [p |-> pilot_setFlag(IF pilot_isHostile(p, fenemy)
                              THEN pilot_setFlag(rh.p, "HOSTILE") ELSE rh.p,
                              "DISABLED"),
          enemies |-> rh.enemies,
          disabled |-> TRUE])
  ELSE [p |-> p, enemies |-> enemies, disabled |-> FALSE]

\* pilot_hit: damage_shield and damage_armour are what outfit_calcDamage made
\* of the blow; is_player says whether p is the player's pilot.  Returns the
\* pilot, the damage taken, the enemy counter and the hooks that were run.
pilot_hit(p, is_player, dtype, damage_shield, damage_armour, enemies, fenemy) ==
  With(HitBlow(p, dtype, damage_shield, damage_armour), LAMBDA blow :
  With(HitDisable(blow.p, is_player, enemies, fenemy), LAMBDA dis :
    [p |-> HitDead(dis.p),
     dmg |-> blow.dmg,
     enemies |-> dis.enemies,
     hooks |-> (IF dis.disabled THEN <<"DISABLE">> ELSE <<>>)
               \o (IF dis.p.armour <= 0 /\ ~pilot_isFlag(dis.p, "DEAD")
                   THEN <<"DEATH">> ELSE <<>>)]))

(***************************************************************************)
(* The per-tick update.  dt is in ms.                                      *)
(***************************************************************************)
\* 1000 * exp(x / 1000) for 0 <= x, by its power series.
RECURSIVE ExpSeries(_, _, _, _)
ExpSeries(x, n, term, acc) ==
  IF term = 0 THEN acc
  ELSE ExpSeries(x, n + 1, ((term \div 10) * x) \div (100 * n), acc + term)

\* 1000 * (1 - exp(-dt / tau)) with tau = energy_max / energy_regen seconds.
ChargeFraction(p, dt) ==
  IF p.energy_regen <= 0 \/ p.energy_max <= 0 THEN 0
  ELSE LET x == (dt * p.energy_regen) \div p.energy_max
       IN IF x >= 7000 THEN 1000
          ELSE 1000 - (1000000 \div ExpSeries(x, 1, 1000, 0))

\* A timer that the update runs down only while it is positive.
RunDown(t, dt) == IF t > 0 THEN t - dt ELSE t

\* A variant in which no timer runs.
UpdateTimers_still(p, dt) == p

\* The timers part of pilot_update.
UpdateTimers(p, dt) ==
  [p EXCEPT !.ptimer = SatTimer(@ - dt),
            !.tcontrol = SatTimer(@ - dt),
            !.timer = [k \in 1..MAX_AI_TIMERS |-> RunDown(p.timer[k], dt)],
            !.outfits = [k \in 1..Len(p.outfits) |->
                           IF Above(p.outfits[k], 0)
                           THEN [p.outfits[k] EXCEPT !.timer = @ - dt]
                           ELSE p.outfits[k]]]

\* The death sequence of pilot_update for a pilot flagged DEAD: at most one
\* stage per tick.  done tells that the update returns at once.
UpdateDead(p) ==
  IF Below(p, 0)
    THEN [p |-> pilot_setFlag(p, "DELETE"), done |-> TRUE]
  ELSE IF ~pilot_isFlag(p, "DEATH_SOUND") /\ Below(p, 50)
    THEN [p |-> pilot_setFlag(p, "DEATH_SOUND"), done |-> FALSE]
  ELSE IF ~pilot_isFlag(p, "EXPLODED") /\ Below(p, 200)
    THEN [p |-> pilot_setFlag(p, "EXPLODED"), done |-> FALSE]
  ELSE IF p.timer[2] <= 0
    THEN [p |-> [p EXCEPT !.timer[2] =
                   IF p.ptimer = 0 THEN TimerCap
                   ELSE (80 * (p.ptimer - p.timer[2])) \div p.ptimer],
          done |-> FALSE]
  ELSE [p |-> p, done |-> FALSE]

\* A variant in which the afterburner drains whatever energy there is.
UpdateAlive_drain(p, dt) ==
  LET p1 == [p EXCEPT
               !.armour = MIN(p.armour_max, @ + (p.armour_regen * dt) \div 1000),
               !.shield = MIN(p.shield_max, @ + (p.shield_regen * dt) \div 1000)]
      p2 == IF p1.energy < 1 THEN pilot_rmFlag(p1, "AFTERBURNER") ELSE p1
      burn(p3) == IF p3.afterburner = NULL THEN 0
                  ELSE outfit_energy(p3.outfits[p3.afterburner].outfit) * dt
  IN With([p2 EXCEPT
             !.energy = MIN(p.energy_max,
                            @ + ((p.energy_max - @) * ChargeFraction(p, dt)) \div 1000)],
          LAMBDA p3 :
            IF /\ ~pilot_isFlag(p3, "HYPERSPACE")
               /\ pilot_isFlag(p3, "AFTERBURNER")
            THEN [p3 EXCEPT !.energy = @ - burn(p3) \div 1000]
            ELSE p3)

\* The part of pilot_update a pilot that is not disabled goes through.
UpdateAlive(p, dt) ==
  LET p1 == [p EXCEPT
               !.armour = MIN(p.armour_max, @ + (p.armour_regen * dt) \div 1000),
               !.shield = MIN(p.shield_max, @ + (p.shield_regen * dt) \div 1000)]
      p2 == IF p1.energy < 1 THEN pilot_rmFlag(p1, "AFTERBURNER") ELSE p1
      burn(p3) == IF p3.afterburner = NULL THEN 0
                  ELSE outfit_energy(p3.outfits[p3.afterburner].outfit) * dt
  IN With([p2 EXCEPT
             !.energy = MIN(p.energy_max,
                            @ + ((p.energy_max - @) * ChargeFraction(p, dt)) \div 1000)],
          LAMBDA p3 :
            IF /\ ~pilot_isFlag(p3, "HYPERSPACE")
               /\ pilot_isFlag(p3, "AFTERBURNER")
               /\ p3.energy * 1000 > burn(p3)
            THEN [p3 EXCEPT !.energy = @ - burn(p3) \div 1000]
            ELSE p3)

\* pilot_update
pilot_update(p, dt) ==
  With(UpdateTimers(p, dt), LAMBDA p1 :
  With(IF pilot_isFlag(p1, "DEAD") THEN UpdateDead(p1)
       ELSE IF p1.armour <= 0 THEN [p |-> pilot_dead(p1), done |-> FALSE]
       ELSE [p |-> p1, done |-> FALSE],
       LAMBDA d :
         IF d.done THEN d.p
         ELSE IF pilot_isDisabled(d.p) THEN pilot_setTurn(pilot_setThrust(d.p, 0), 0)
         ELSE UpdateAlive(d.p, dt)))

\* A variant that begins the jump whichever way the pilot faces.
pilot_hyperspace_unfaced(p, is_player, phys) ==
  IF pilot_isFlag(p, "HYPERSPACE") THEN
    LET p1 == IF p.id = PLAYER_ID /\ phys.sound /\ p.timer[1] = -1000
              THEN [p EXCEPT !.timer[1] = -2000] ELSE p
    IN IF Below(p1, 0)
       THEN IF p1.id = PLAYER_ID THEN p1 ELSE pilot_setFlag(p1, "DELETE")
       ELSE [p1 EXCEPT !.solid.force_x = HYPERSPACE_THRUST * p1.solid.mass]
  ELSE IF pilot_isFlag(p, "HYP_BEGIN") THEN
    IF Below(p, 0)
    THEN [p EXCEPT !.ptimer = HYPERSPACE_FLY_DELAY, !.punder = FALSE,
                   !.flags = @ \cup {"HYPERSPACE"},
                   !.timer[1] = IF p.id = PLAYER_ID THEN -1000 ELSE @]
    ELSE p
  ELSE IF phys.moving THEN
    pilot_setThrust(pilot_setTurn(p, phys.steer), IF phys.facing THEN 1 ELSE 0)
  ELSE LET p1 == pilot_setThrust(p, 0)
           p2 == IF is_player THEN p1 ELSE pilot_setTurn(p1, phys.steer)
       IN IF TRUE
          THEN [pilot_setTurn(p2, 0) EXCEPT !.ptimer = HYPERSPACE_ENGINE_DELAY,
                                            !.punder = FALSE,
                                            !.flags = @ \cup {"HYP_BEGIN"}]
          ELSE p2

\* pilot_hyperspace.  phys is what the physics says this tick: moving (the
\* pilot is not yet at rest), facing (it points where it has to), steer (the
\* turn pilot_face asks for) and sound (the jump sound is due).
pilot_hyperspace(p, is_player, phys) ==
  IF pilot_isFlag(p, "HYPERSPACE") THEN
    LET p1 == IF p.id = PLAYER_ID /\ phys.sound /\ p.timer[1] = -1000
              THEN [p EXCEPT !.timer[1] = -2000] ELSE p
    IN IF Below(p1, 0)
       THEN IF p1.id = PLAYER_ID THEN p1 ELSE pilot_setFlag(p1, "DELETE")
       ELSE [p1 EXCEPT !.solid.force_x = HYPERSPACE_THRUST * p1.solid.mass]
  ELSE IF pilot_isFlag(p, "HYP_BEGIN") THEN
    IF Below(p, 0)
    THEN [p EXCEPT !.ptimer = HYPERSPACE_FLY_DELAY, !.punder = FALSE,
                   !.flags = @ \cup {"HYPERSPACE"},
                   !.timer[1] = IF p.id = PLAYER_ID THEN -1000 ELSE @]
    ELSE p
  ELSE IF phys.moving THEN
    pilot_setThrust(pilot_setTurn(p, phys.steer), IF phys.facing THEN 1 ELSE 0)
  ELSE LET p1 == pilot_setThrust(p, 0)
           p2 == IF is_player THEN p1 ELSE pilot_setTurn(p1, phys.steer)
       IN IF phys.facing
          THEN [pilot_setTurn(p2, 0) EXCEPT !.ptimer = HYPERSPACE_ENGINE_DELAY,
                                            !.punder = FALSE,
                                            !.flags = @ \cup {"HYP_BEGIN"}]
          ELSE p2

\* A variant that stops in every phase.
pilot_hyperspaceAbort_always(p) ==
  pilot_rmFlag(pilot_rmFlag(p, "HYP_BEGIN"), "HYP_PREP")

\* A variant that takes back the preparation alone.
pilot_hyperspaceAbort_prep(p) ==
  IF ~pilot_isFlag(p, "HYPERSPACE") THEN pilot_rmFlag(p, "HYP_PREP") ELSE p

\* pilot_hyperspaceAbort
pilot_hyperspaceAbort(p) ==
  IF ~pilot_isFlag(p, "HYPERSPACE")
  THEN pilot_rmFlag(pilot_rmFlag(p, "HYP_BEGIN"), "HYP_PREP")
  ELSE p

(***************************************************************************)
(* The registry.  Pilot objects live at heap addresses 1..MaxPilots that   *)
(* malloc hands out once each; pilot_stack is the array of addresses, its  *)
(* length is pilot_nstack.  Code that runs in sequence is written over a   *)
(* world record w holding the globals it reads and writes.                 *)
(***************************************************************************)
VARIABLES
  pilots,            \* heap: address -> Pilot
  pilot_stack,       \* the registry, a sequence of addresses
  pilot_mstack,      \* allocated capacity of the registry
  pilot_id,          \* id generator
  player,            \* address of the player's pilot or NULL
  player_enemies,    \* count of pilots hostile to the player
  mission_cargo_id,  \* mission cargo id generator
  cur_pilot,         \* ai.c: the pilot the AI functions act on
  sweep,             \* position of pilots_update in its loop
  pass,              \* history: what the current pass met and did
  thought,           \* history: the run of ai_think in the step just taken
  tasks,             \* ai.c: the Task objects of one pilot and its task pointer
  last               \* history: the call made in the step just taken

vars == <<pilots, pilot_stack, pilot_mstack, pilot_id, player, player_enemies,
          mission_cargo_id, cur_pilot, sweep, pass, thought, tasks, last>>

pilot_nstack == Len(pilot_stack)
Addrs == 1..MaxPilots

World ==
  [pilots |-> pilots, pilot_stack |-> pilot_stack, pilot_mstack |-> pilot_mstack,
   pilot_id |-> pilot_id, player |-> player, player_enemies |-> player_enemies,
   cur_pilot |-> cur_pilot]

\* The address malloc returns next, and the number of addresses still free.
NewAddr(w) ==
  Cardinality({a \in DOMAIN w.pilots : w.pilots[a].mem # "unalloc"}) + 1
HeapRoom(w) == MaxPilots + 1 - NewAddr(w)

\* pilot_getStackPos: the binary search by id over the registry; positions
\* count from 0, -1 is not found.
RECURSIVE BinSearch(_, _, _, _)
BinSearch(w, id, l, h) ==
  IF l > h THEN -1
  ELSE LET m == (l + h) \div 2
           mid == w.pilots[w.pilot_stack[m + 1]].id
       IN IF mid > id THEN BinSearch(w, id, l, m - 1)
          ELSE IF mid < id THEN BinSearch(w, id, m + 1, h)
          ELSE m

pilot_getStackPos(w, id) == BinSearch(w, id, 0, Len(w.pilot_stack) - 1)

\* pilot_get: the address of the pilot with this id, NULL when not found.
pilot_get(w, id) ==
  IF id = PLAYER_ID THEN w.player
  ELSE LET m == pilot_getStackPos(w, id)
       IN IF m = -1 THEN NULL ELSE w.pilot_stack[m + 1]

\* PILOT_REFUEL_RATE * dt, the fuel that moves in dt milliseconds.
RefuelAmount(dt) == (HYPERSPACE_FUEL * dt) \div PILOT_REFUEL_TIME

\* pilot_refuelStart of the pilot at a; near tells that the pilot is within
\* reach of its target and as fast as it.
pilot_refuelStart(w, a, near) ==
  IF pilot_get(w, w.pilots[a].target) = NULL
  THEN [w |-> [w EXCEPT !.pilots[a] = pilot_rmFlag(@, "REFUELING")], ret |-> 0]
  ELSE IF ~near THEN [w |-> w, ret |-> 0]
  ELSE [w |-> [w EXCEPT !.pilots[a] =
                 [pilot_setFlag(@, "REFUELBOARDING") EXCEPT
                    !.ptimer = PILOT_REFUEL_TIME, !.punder = FALSE]],
        ret |-> 1]

\* pilot_refuel: the pilot at a gives fuel to its target for dt milliseconds.
pilot_refuel(w, a, dt) ==
  With(pilot_get(w, w.pilots[a].target), LAMBDA t :
    IF t = NULL
    THEN [w EXCEPT !.pilots[a].flags = @ \ {"REFUELBOARDING", "REFUELING"}]
    ELSE
      With([w EXCEPT !.pilots[a].fuel = @ - RefuelAmount(dt)], LAMBDA w1 :
      With([w1 EXCEPT !.pilots[t].fuel = @ + RefuelAmount(dt)], LAMBDA w2 :
      With(IF w2.pilots[t].fuel > w2.pilots[t].fuel_max
           THEN [w2 EXCEPT !.pilots[a].ptimer = -1000, !.pilots[a].punder = FALSE,
                           !.pilots[t].fuel = w2.pilots[t].fuel_max]
           ELSE w2, LAMBDA w3 :
        IF Below(w3.pilots[a], 0)
        THEN [w3 EXCEPT !.pilots[a].flags = @ \ {"REFUELBOARDING", "REFUELING"}]
        ELSE w3))))

\* pilot_dock: the pilot at a docks on the pilot at t; deployed says whether
\* it was launched from one of t's bays, near whether it is close and slow
\* enough.  The escorts of t are listed by id.
pilot_dock(w, a, t, deployed, near) ==
  LET p == w.pilots[a]
      target == w.pilots[t]
      bays == {k \in 1..Len(target.outfits) :
                 /\ target.outfits[k].outfit # "none"
                 /\ outfit_isFighterBay(target.outfits[k].outfit)
                 /\ ~(deployed /\ target.outfits[k].ammo.deployed <= 0)
                 /\ outfit_isFighter(outfit_ammo(target.outfits[k].outfit))
                 /\ Outfits[outfit_ammo(target.outfits[k].outfit)].ship = p.ship}
  IN IF ~near \/ bays = {} THEN [w |-> w, ret |-> -1]
     ELSE
       With(CHOOSE k \in bays : \A j \in bays : k <= j, LAMBDA i :
       With(pilot_addAmmo(IF deployed
                          THEN [target EXCEPT !.outfits[i].ammo.deployed = @ - 1]
                          ELSE target,
                          i, outfit_ammo(target.outfits[i].outfit), 1),
            LAMBDA r :
       With({k \in 1..Len(r.p.escorts) : r.p.escorts[k] = p.id}, LAMBDA listed :
         IF r.ret # 1 \/ (deployed /\ listed = {})
         THEN [w |-> [w EXCEPT !.pilots[t] = r.p], ret |-> -1]
         ELSE [w |-> [w EXCEPT
                        !.pilots[t] =
                          IF deployed
                          THEN [r.p EXCEPT !.escorts =
                                  RemoveAt(@, CHOOSE k \in listed :
                                                \A j \in listed : k <= j)]
                          ELSE r.p,
                        !.pilots[a] = pilot_setFlag(p, "DELETE")],
               ret |-> 0])))

\* The equip script: every item goes into the first empty high slot, with
\* its ammunition.
RECURSIVE Equip(_, _)
Equip(p, items) ==
  IF items = <<>> THEN p
  ELSE With({k \in HighSlots(p) : p.outfits[k].outfit = "none"}, LAMBDA free :
         IF free = {} THEN p
         ELSE With(CHOOSE k \in free : \A j \in free : k <= j, LAMBDA s :
              With(pilot_addOutfit(p, Head(items).outfit, s).p, LAMBDA p1 :
                Equip(IF Head(items).ammo = "none" THEN p1
                      ELSE pilot_addAmmo(p1, s, Head(items).ammo,
                                         Head(items).quantity).p,
                      Tail(items)))))

Loadouts ==
  [bare    |-> <<>>,
   carrier |-> <<[outfit |-> "bay", ammo |-> "drone", quantity |-> 1]>>]

\* ai_create: the AI's current pilot becomes the new pilot and stays so; the
\* equip script runs unless the pilot is created empty.
ai_create(w, a, loadout) ==
  [w EXCEPT !.cur_pilot = a,
            !.pilots[a] = IF pilot_isFlag(@, "EMPTY") THEN @
                          ELSE Equip(@, Loadouts[loadout])]

\* ai_pinit
ai_pinit(w, a, fuel, loadout) ==
  [ai_create([w EXCEPT !.pilots[a].ai = TRUE, !.pilots[a].fuel = fuel], a, loadout)
     EXCEPT !.pilots[a] = pilot_setFlag(@, "CREATED_AI")]

\* pilot_create with pilot_init: ai says whether an AI profile is given.
pilot_create(w, ship, flags, ai, fuel, loadout) ==
  With(NewAddr(w), LAMBDA dyn :
  With([w EXCEPT
          !.pilot_mstack = IF Len(w.pilot_stack) + 1 > @
                           THEN @ + PILOT_CHUNK ELSE @,
          !.pilot_stack = Append(@, dyn),
          !.pilot_id = IF "PLAYER" \in flags THEN @ ELSE @ + 1,
          !.pilots[dyn] = pilot_init(IF "PLAYER" \in flags THEN PLAYER_ID
                                     ELSE w.pilot_id + 1,
                                     ship, flags),
          !.player = IF "PLAYER" \in flags /\ "EMPTY" \notin flags
                     THEN dyn ELSE @],
       LAMBDA w1 : IF ai THEN ai_pinit(w1, dyn, fuel, loadout) ELSE w1))

\* escort_create: the escort is a pilot of the fighter's ship created with
\* the escort AI and the flags ESCORT and CARRIED, listed with its parent.
escort_create(w, parent, ship) ==
  With(pilot_create(w, ship, {"ESCORT", "CARRIED"}, TRUE, Ships[ship].fuel, "bare"),
       LAMBDA w1 :
         [w1 EXCEPT !.pilots[parent].escorts = Append(@, w1.pilots[NewAddr(w)].id)])

\* ai_destroy: the task list is released.
ai_destroy(p) == [p EXCEPT !.task = <<>>]

\* pilot_free: the hostile count is settled, the pilot's memory is released
\* and the player reference is cleared when it was the player.  The released
\* memory keeps its bytes.
pilot_free(w, a) ==
  With(pilot_rmHostile(w.pilots[a], w.player_enemies), LAMBDA rh :
  With(pilot_cargoUsed(rh.p), LAMBDA used :
  With([rh.p EXCEPT !.commodities = <<>>,
                    !.cargo_free = @ + used,
                    !.mass_cargo = @ - used,
                    !.solid.mass = @ - used],
       LAMBDA p1 :
         [w EXCEPT !.pilots[a] = [(IF p1.ai THEN ai_destroy(p1) ELSE p1)
                                    EXCEPT !.mem = "freed"],
                   !.player_enemies = rh.enemies,
                   !.player = IF @ = a THEN NULL ELSE @])))

\* pilot_destroy: frees the pilot and closes the gap at the first position
\* that holds its address.
pilot_destroy(w, a) ==
  With({k \in 1..Len(w.pilot_stack) : w.pilot_stack[k] = a}, LAMBDA at :
    [pilot_free(w, a) EXCEPT
       !.pilot_stack = RemoveAt(@, CHOOSE k \in at : \A j \in at : k <= j)])

\* Frees the pilots at the addresses of sq, in order.
RECURSIVE FreeAll(_, _)
FreeAll(w, sq) ==
  IF sq = <<>> THEN w ELSE FreeAll(pilot_free(w, Head(sq)), Tail(sq))

\* pilots_clean: every pilot but the player is freed; with a player the
\* registry becomes the player alone, without one its length is left as is.
pilots_clean(w) ==
  With(FreeAll(w, SelectSeq(w.pilot_stack,
                            LAMBDA a : ~(w.player # NULL /\ a = w.player))),
       LAMBDA w1 :
         IF w.player # NULL
         THEN [w1 EXCEPT !.pilot_stack = <<w.player>>,
                         !.pilots[w.player] = pilot_clearTimers(@)]
         ELSE w1)

\* pilots_cleanAll
pilots_cleanAll(w) ==
  With(pilots_clean(w), LAMBDA w1 :
    [(IF w1.player # NULL THEN pilot_free(w1, w1.player) ELSE w1)
       EXCEPT !.pilot_stack = <<>>])

\* pilot_distress: every other registered pilot in range that has an AI is
\* handed the signal, which makes it the AI's current pilot; heard tells
\* whether the others are in range.
pilot_distress(w, a, heard) ==
  LET got == {k \in 1..Len(w.pilot_stack) :
                /\ w.pilots[w.pilot_stack[k]].id # w.pilots[a].id
                /\ heard
                /\ w.pilots[w.pilot_stack[k]].ai}
      final == CHOOSE k \in got : \A j \in got : j <= k
  IN [w EXCEPT !.cur_pilot = IF got = {} THEN @ ELSE w.pilot_stack[final],
               !.pilots[a] = pilot_setFlag(@, "DISTRESSED")]

(***************************************************************************)
(* The AI think step.  A behaviour script is an input: the calls it makes  *)
(* into the AI bindings, in order, and whether it then fails.  The intents *)
(* travel in a record st = [w, acc, turn, flags, firemode, nrun, nerr].    *)
(***************************************************************************)
\* aiL_secondary: keeps the selected secondary weapon, else selects the first
\* slot that holds one.
aiL_secondary(p) ==
  LET cand == {k \in 1..Len(p.outfits) :
                 p.outfits[k].outfit # "none" /\ outfit_isSecondary(p.outfits[k].outfit)}
  IN IF p.secondary # NULL \/ cand = {} THEN p
     ELSE [p EXCEPT !.secondary = CHOOSE k \in cand : \A j \in cand : k <= j]

\* aiL_pushtask at the front, aiL_poptask
aiL_pushtask(p, func) == [p EXCEPT !.task = <<func>> \o @]
aiL_poptask(p) == IF p.task = <<>> THEN p ELSE [p EXCEPT !.task = Tail(@)]

\* One call of a script into the bindings; all act on the current pilot or
\* on the intents.
ScriptCall(st, op) ==
  LET c == st.w.cur_pilot
  IN CASE op = "accel" -> [st EXCEPT !.acc = 1]
       [] op = "turn" -> [st EXCEPT !.turn = 1]
       [] op = "shoot" -> [st EXCEPT !.flags = @ \cup {"PRIMARY"}]
       [] op = "shoot2" -> [st EXCEPT !.flags = @ \cup {"SECONDARY"}]
       [] op = "distress" -> [st EXCEPT !.flags = @ \cup {"DISTRESS"}]
       [] op = "secondary" -> [st EXCEPT !.w.pilots[c] = aiL_secondary(@)]
       [] op = "pushtask" -> [st EXCEPT !.w.pilots[c] = aiL_pushtask(@, "attack")]
       [] op = "poptask" -> [st EXCEPT !.w.pilots[c] = aiL_poptask(@)]

RECURSIVE ScriptCalls(_, _)
ScriptCalls(st, ops) ==
  IF ops = <<>> THEN st ELSE ScriptCalls(ScriptCall(st, Head(ops)), Tail(ops))

\* The variant of ai_run that calls the function once more after it failed.
ai_run_again(st, script) ==
  [ScriptCalls(st, script.ops) EXCEPT !.nrun = @ + (IF script.err THEN 2 ELSE 1),
                                      !.nerr = @ + (IF script.err THEN 1 ELSE 0)]

\* ai_run: the protected call; a failure is logged and nothing is undone.
ai_run(st, script) ==
  [ScriptCalls(st, script.ops) EXCEPT !.nrun = @ + 1,
                                      !.nerr = @ + (IF script.err THEN 1 ELSE 0)]

\* pilot_shootSecondary in the world: every fighter launched is created as
\* an escort of the shooter.
RECURSIVE Launch(_, _, _)
Launch(w, a, spawns) ==
  IF spawns = <<>> THEN w
  ELSE Launch(IF Head(spawns) \in OutfitNames /\ outfit_isFighter(Head(spawns))
              THEN escort_create(w, a, Outfits[Head(spawns)].ship) ELSE w,
              a, Tail(spawns))

ShootSecondary(w, a) ==
  With(pilot_shootSecondary(w.pilots[a]), LAMBDA r :
    Launch([w EXCEPT !.pilots[a] = r.p], a, r.spawns))

\* The most fighters one volley of pilot p can launch: its loaded bays.
BaysLoaded(p) ==
  Cardinality({k \in HighSlots(p) :
                 /\ p.outfits[k].outfit # "none"
                 /\ outfit_isFighterBay(p.outfits[k].outfit)
                 /\ p.outfits[k].ammo.quantity > 0})

\* ai_think, the start: the thinker becomes the current pilot, targets itself
\* and has no intents.
ThinkStart(w, pilot) ==
  [w |-> [w EXCEPT !.cur_pilot = pilot,
                   !.pilots[pilot].target = w.pilots[pilot].id],
   acc |-> 0, turn |-> 0, flags |-> {}, firemode |-> 0,
   nrun |-> 0, nerr |-> 0]

\* ai_think, the control run: "control" runs and the control timer of the
\* current pilot is set to the control rate.
ThinkControl(st0, control, rate) ==
  With(ai_run(st0, control), LAMBDA run1 :
    [run1 EXCEPT !.w.pilots[run1.w.cur_pilot].tcontrol = rate])

\* ai_think, the end: the intents are clamped and applied, each to the pilot
\* that is current when it is applied.
ThinkApply(st2, pilot, due, has, heard) ==
  With(CLAMP(0, 1, st2.acc), LAMBDA acc :
  With(CLAMP(-1, 1, st2.turn), LAMBDA turn :
  With(st2.w.cur_pilot, LAMBDA c1 :
  With([st2.w EXCEPT !.pilots[c1] = pilot_setThrust(pilot_setTurn(@, turn), acc)],
       LAMBDA w1 :
  With(IF "PRIMARY" \in st2.flags
       THEN [w1 EXCEPT !.pilots[c1] = pilot_shoot(@, st2.firemode).p] ELSE w1,
       LAMBDA w2 :
  With(IF "SECONDARY" \in st2.flags THEN ShootSecondary(w2, w2.cur_pilot) ELSE w2,
       LAMBDA w3 :
    [w |-> IF "DISTRESS" \in st2.flags
           THEN pilot_distress(w3, w3.cur_pilot, heard) ELSE w3,
     acc |-> acc, turn |-> turn, flags |-> st2.flags,
     firemode |-> st2.firemode,
     seen |-> [pilot |-> pilot, due |-> due, has |-> has,
               nrun |-> st2.nrun, nerr |-> st2.nerr,
               acc |-> acc, turn |-> turn, flags |-> st2.flags,
               turn_to |-> c1, thrust_to |-> c1,
               primary_to |-> IF "PRIMARY" \in st2.flags THEN c1 ELSE NULL,
               secondary_to |-> IF "SECONDARY" \in st2.flags
                                THEN w2.cur_pilot ELSE NULL,
               distress_to |-> IF "DISTRESS" \in st2.flags
                               THEN w3.cur_pilot ELSE NULL]]))))))

\* ai_think: control is the script behind "control", task the one behind the
\* current task's name, rate the script's control_rate.  Returns the world,
\* the intents as they stand at the end, and a record of the run.
ai_think(w, pilot, control, task, rate, heard) ==
  With(ThinkStart(w, pilot), LAMBDA st0 :
  With(st0.w.pilots[pilot].tcontrol < 0 \/ st0.w.pilots[pilot].task = <<>>,
       LAMBDA due :
  With(IF due THEN ThinkControl(st0, control, rate) ELSE st0, LAMBDA st1 :
  With(st1.w.pilots[st1.w.cur_pilot].task # <<>>, LAMBDA has :
  With(IF has THEN ai_run(st1, task) ELSE st1, LAMBDA st2 :
    ThinkApply(st2, pilot, due, has, heard))))))

\* player_think: the player's input handler; it leaves the registry and the
\* AI's variables alone.
player_think(w, a) == w

\* player_update: the player's pilot goes through pilot_update.
player_update(p, dt) == pilot_update(p, dt)

(***************************************************************************)
(* The Task objects.  A pilot's tasks are a chain of malloc'ed Task        *)
(* objects linked by next; the pilot's task pointer is the head.  ts is a  *)
(* record [task, cell, dfree, fault]: the task pointer of the AI's current *)
(* pilot, the Task objects by address (a name, which stands for the name   *)
(* and the data of the task, next and the state of the memory), whether    *)
(* free() was ever called on memory that was not allocated, and whether    *)
(* the process has died of a memory fault.                                 *)
(***************************************************************************)
MaxCells == 3
Cells == 1..MaxCells
TaskNames == {"attack", "runaway"}

NoTask == [name |-> "none", next |-> NULL, mem |-> "unalloc"]
NoTasks ==
  [task |-> NULL, cell |-> [c \in Cells |-> NoTask], dfree |-> FALSE,
   fault |-> FALSE]

\* malloc(sizeof(Task)): an address that is not allocated; freed memory is
\* handed out again.
TaskRoom(ts) == {c \in Cells : ts.cell[c].mem # "alloc"}
TaskAlloc(ts) == CHOOSE c \in TaskRoom(ts) : \A d \in TaskRoom(ts) : c <= d

\* free(t): the memory keeps its bytes.
TaskFree(ts, t) ==
  [ts EXCEPT !.cell[t].mem = "freed",
             !.dfree = @ \/ ts.cell[t].mem # "alloc"]

\* ai_freetask: frees what follows t, then t.
RECURSIVE ai_freetask(_, _)
ai_freetask(ts, t) ==
  IF ts.cell[t].next # NULL
  THEN TaskFree([ai_freetask(ts, ts.cell[t].next) EXCEPT !.cell[t].next = NULL], t)
  ELSE TaskFree(ts, t)

\* The Task objects from c on, in the order of the chain, and their names.
RECURSIVE ChainFrom(_, _)
ChainFrom(ts, c) ==
  IF c = NULL THEN <<>> ELSE <<c>> \o ChainFrom(ts, ts.cell[c].next)
Chain(ts) == ChainFrom(ts, ts.task)
ChainNames(ts) == [i \in 1..Len(Chain(ts)) |-> ts.cell[Chain(ts)[i]].name]

\* The loop of aiL_pushtask that walks to the last Task of the chain.
RECURSIVE LastTask(_, _)
LastTask(ts, pointer) ==
  IF ts.cell[pointer].next # NULL THEN LastTask(ts, ts.cell[pointer].next)
  ELSE pointer

\* aiL_pushtask on the Task objects: pos 1 puts the task at the end, every
\* other pos at the beginning.  With pos 1 and no task the loop reads
\* pointer->next through a null pointer; ub is what becomes of that: the
\* process dies of the fault, or the store goes astray and the new Task is
\* linked nowhere.
pushtask(ts, pos, func, ub) ==
  With(TaskAlloc(ts), LAMBDA t :
  With([ts EXCEPT !.cell[t] = [name |-> func, next |-> NULL, mem |-> "alloc"]],
       LAMBDA ts1 :
    IF pos = 1
    THEN IF ts.task = NULL
         THEN [ts1 EXCEPT !.fault = (ub = "fault")]
         ELSE [ts1 EXCEPT !.cell[LastTask(ts, ts.task)].next = t]
    ELSE [ts1 EXCEPT !.cell[t].next = ts.task, !.task = t]))

\* ai_refuel on the Task objects: the task "refuel" is put at the beginning.
ai_refuel(ts) ==
  With(TaskAlloc(ts), LAMBDA t :
    [ts EXCEPT !.cell[t] = [name |-> "refuel", next |-> ts.task, mem |-> "alloc"],
               !.task = t])

\* The variant of poptask that frees the whole chain from the head on.
poptask_all(ts) ==
  IF ts.task = NULL THEN ts
  ELSE ai_freetask([ts EXCEPT !.task = ts.cell[ts.task].next], ts.task)

\* aiL_poptask on the Task objects: the head is unlinked and freed.
poptask(ts) ==
  IF ts.task = NULL THEN ts
  ELSE ai_freetask([ts EXCEPT !.task = ts.cell[ts.task].next,
                              !.cell[ts.task].next = NULL],
                   ts.task)

\* The variant of ai_destroy that frees the head Task alone.
TasksDestroy_head(ts) ==
  [(IF ts.task # NULL THEN TaskFree(ts, ts.task) ELSE ts) EXCEPT !.task = NULL]

\* ai_destroy on the Task objects: the chain is freed from the head on and
\* the task pointer is reset.
TasksDestroy(ts) ==
  [(IF ts.task # NULL THEN ai_freetask(ts, ts.task) ELSE ts) EXCEPT !.task = NULL]

\* pilot_free on the Task objects: ai_destroy runs for a pilot with an AI.
TasksFree(ts, ai) == IF ai THEN TasksDestroy(ts) ELSE ts

(***************************************************************************)
(* Inputs of the registry specification.                                   *)
(***************************************************************************)
Script(ops, err) == [ops |-> ops, err |-> err]
Idle == Script(<<>>, FALSE)
ControlScripts ==
  {Script(<<"pushtask">>, FALSE), Script(<<"accel", "turn">>, TRUE)}
TaskScripts ==
  {Script(<<"poptask">>, FALSE),
   Script(<<"secondary", "shoot2", "distress">>, FALSE)}
TickLengths == {2000}
NoPhys == [moving |-> FALSE, facing |-> FALSE, steer |-> 0, sound |-> FALSE, slow |-> FALSE]
PhysSet ==
  {[NoPhys EXCEPT !.moving = m, !.facing = f, !.slow = s] :
     m \in BOOLEAN, f \in BOOLEAN, s \in BOOLEAN}

\* A script may be drawn for pilot p when its pushes keep the task list
\* within MaxTasks and its launches fit the heap.
ScriptFits(w, a, script) ==
  /\ ("pushtask" \in Range(script.ops) => Len(w.pilots[a].task) < MaxTasks)
  /\ ("shoot2" \in Range(script.ops) => BaysLoaded(w.pilots[a]) <= HeapRoom(w))

NoThought ==
  [pilot |-> NULL, due |-> FALSE, has |-> FALSE, nrun |-> 0, nerr |-> 0,
   acc |-> 0, turn |-> 0, flags |-> {},
   turn_to |-> NULL, thrust_to |-> NULL, primary_to |-> NULL,
   secondary_to |-> NULL, distress_to |-> NULL]

NoPass == [n |-> 0, done |-> FALSE, start |-> {}, del |-> {}, upd |-> [a \in Addrs |-> 0]]
NoSweep == [active |-> FALSE, i |-> 0, dt |-> 0, kind |-> "none", addr |-> NULL,
            was_player |-> FALSE, len0 |-> 0, mlen0 |-> 0]

\* The globals as the program starts: an empty registry, no player.
Boot ==
  [pilots |-> [a \in Addrs |-> ZeroPilot], pilot_stack |-> <<>>,
   pilot_mstack |-> 0, pilot_id |-> PLAYER_ID, player |-> NULL,
   player_enemies |-> 0, cur_pilot |-> NULL]

\* The state whose globals are those of the world record w, between passes.
StartsAs(w) ==
  /\ pilots = w.pilots
  /\ pilot_stack = w.pilot_stack
  /\ pilot_mstack = w.pilot_mstack
  /\ pilot_id = w.pilot_id
  /\ player = w.player
  /\ player_enemies = w.player_enemies
  /\ cur_pilot = w.cur_pilot
  /\ mission_cargo_id = 0
  /\ sweep = NoSweep
  /\ pass = NoPass
  /\ thought = NoThought
  /\ tasks = NoTasks
  /\ last = NoCall

Init == StartsAs(Boot)

\* The globals of a world record become the next state.
Commit(w) ==
  /\ pilots' = w.pilots
  /\ pilot_stack' = w.pilot_stack
  /\ pilot_mstack' = w.pilot_mstack
  /\ pilot_id' = w.pilot_id
  /\ player' = w.player
  /\ player_enemies' = w.player_enemies
  /\ cur_pilot' = w.cur_pilot

Idling == ~sweep.active

\* The step makes no call that is followed and leaves the Task objects alone.
Unseen ==
  /\ last' = NoCall
  /\ tasks' = tasks

\* Outside a pass the histories are blank, but for the count of passes.
Blank ==
  /\ sweep' = NoSweep
  /\ pass' = [NoPass EXCEPT !.n = pass.n]
  /\ thought' = NoThought
  /\ Unseen

\* pilot_create called between two passes.
Create(ship, flags, loadout) ==
  /\ Idling
  /\ "PLAYER" \in flags => player = NULL /\ loadout = "bare"
  /\ HeapRoom(World) > 0
  /\ Commit(pilot_create(World, ship, flags, "PLAYER" \notin flags,
                         Ships[ship].fuel, loadout))
  /\ Blank
  /\ UNCHANGED mission_cargo_id

\* pilot_hit on a registered pilot between two passes.  The call is kept:
\* the kind of the blow and whether it carries damage for the shield and
\* for the armour, the pilot and the enemy counter before it, the damage
\* returned and the hooks run.
Hit(a, dtype, damage_shield, damage_armour) ==
  /\ Idling
  /\ a \in Range(pilot_stack)
  /\ \E r \in {pilot_hit(pilots[a], a = player, dtype, damage_shield,
                          damage_armour, player_enemies, FALSE)} :
       /\ pilots' = [pilots EXCEPT ![a] = r.p]
       /\ player_enemies' = r.enemies
       /\ last' = Called("pilot_hit",
                         <<a, dtype, damage_shield > 0, damage_armour > 0>>,
                         pilots[a],
                         [dmg |-> r.dmg, hooks |-> r.hooks,
                          enemies |-> player_enemies])
  /\ sweep' = NoSweep
  /\ pass' = [NoPass EXCEPT !.n = pass.n]
  /\ thought' = NoThought
  /\ tasks' = tasks
  /\ UNCHANGED <<pilot_stack, pilot_mstack, pilot_id, player, mission_cargo_id,
                 cur_pilot>>

\* pilots_clean, called with a player in place.
PilotsClean ==
  /\ Idling
  /\ player # NULL
  /\ Commit(pilots_clean(World))
  /\ Blank
  /\ UNCHANGED mission_cargo_id

\* pilots_cleanAll
PilotsCleanAll ==
  /\ Idling
  /\ Commit(pilots_cleanAll(World))
  /\ Blank
  /\ UNCHANGED mission_cargo_id

(***************************************************************************)
(* pilots_update, one loop iteration per step.  sweep.i is the loop index  *)
(* (from 0); sweep.kind, addr, was_player, len0 and mlen0 remember what    *)
(* the last iteration did, to which pilot, and the registry's length and   *)
(* capacity when it began.                                                 *)
(***************************************************************************)
SweepBegin(dt) ==
  /\ Idling
  /\ sweep' = [NoSweep EXCEPT !.active = TRUE, !.dt = dt]
  /\ pass.n < MaxPasses
  /\ pass' = [n |-> pass.n + 1, done |-> FALSE,
              start |-> {a \in Range(pilot_stack) : ~pilot_isFlag(pilots[a], "DELETE")},
              del |-> {a \in Range(pilot_stack) : pilot_isFlag(pilots[a], "DELETE")},
              upd |-> [a \in Addrs |-> 0]]
  /\ thought' = NoThought
  /\ Unseen
  /\ UNCHANGED <<pilots, pilot_stack, pilot_mstack, pilot_id, player,
                 player_enemies, mission_cargo_id, cur_pilot>>

SweepAt == pilot_stack[sweep.i + 1]
Stepped(kind, a) ==
  [sweep EXCEPT !.i = @ + 1, !.kind = kind, !.addr = a,
                !.was_player = pilot_isFlag(pilots[a], "PLAYER"),
                !.len0 = Len(pilot_stack), !.mlen0 = pilot_mstack]

\* The iteration that meets a pilot flagged DELETE: pilot_destroy, continue.
SweepDestroy ==
  /\ sweep.active
  /\ sweep.i < pilot_nstack
  /\ pilot_isFlag(pilots[SweepAt], "DELETE")
  /\ Commit(pilot_destroy(World, SweepAt))
  /\ sweep' = Stepped("destroy", SweepAt)
  /\ thought' = NoThought
  /\ Unseen
  /\ UNCHANGED <<mission_cargo_id, pass>>

\* Whether the iteration lets the pilot think, and which way.
ThinkMode(p) ==
  IF p.think = "none" \/ pilot_isDisabled(p) THEN "none"
  ELSE IF pilot_isFlag(p, "HYP_PREP") THEN "hyperspace"
  ELSE IF pilot_isFlag(p, "HYP_END") THEN "arrive"
  ELSE IF ~pilot_isFlag(p, "BOARDING") /\ ~pilot_isFlag(p, "REFUELBOARDING")
    THEN p.think
  ELSE "none"

\* The update half of an iteration: p->update(p, dt).
\* pilot_update gives fuel where it regenerates: past the death sequence and
\* the return of a disabled pilot, for a pilot flagged REFUELBOARDING.
UpdateRefuels(p, dt) ==
  /\ pilot_isFlag(p, "REFUELBOARDING")
  /\ ~pilot_isDisabled(p)
  /\ ~(pilot_isFlag(p, "DEAD") /\ UpdateDead(UpdateTimers(p, dt)).done)

\* pilot_boardComplete: the boarding is over.
pilot_boardComplete(p) == pilot_rmFlag(p, "BOARDING")

\* The boarding part of pilot_update comes after the refuelling, for a pilot
\* flagged BOARDING.
UpdateBoards(p, dt) ==
  /\ pilot_isFlag(p, "BOARDING")
  /\ ~pilot_isDisabled(p)
  /\ ~(pilot_isFlag(p, "DEAD") /\ UpdateDead(UpdateTimers(p, dt)).done)

UpdateBoarding(w, a) ==
  IF pilot_get(w, w.pilots[a].target) = NULL
    THEN [w EXCEPT !.pilots[a] = pilot_rmFlag(@, "BOARDING")]
  ELSE IF Below(w.pilots[a], 0)
    THEN [w EXCEPT !.pilots[a] = pilot_boardComplete(@)]
  ELSE w

UpdateStep(w, a, dt) ==
  LET p == w.pilots[a]
  IN IF p.update \in {"pilot_update", "player_update"}
     THEN With([w EXCEPT !.pilots[a] =
                  IF p.update = "pilot_update" THEN pilot_update(p, dt)
                  ELSE player_update(p, dt)],
               LAMBDA w1 :
                 With(IF UpdateRefuels(p, dt) THEN pilot_refuel(w1, a, dt) ELSE w1,
                      LAMBDA w2 : IF UpdateBoards(p, dt) THEN UpdateBoarding(w2, a)
                                  ELSE w2))
     ELSE w

Updated(a) == [pass EXCEPT !.upd[a] = @ + 1]

\* The iteration for a pilot that runs ai_think, then its update.
SweepThink(control, task, rate, heard) ==
  /\ sweep.active
  /\ sweep.i < pilot_nstack
  /\ ~pilot_isFlag(pilots[SweepAt], "DELETE")
  /\ ThinkMode(pilots[SweepAt]) = "ai_think"
  /\ ScriptFits(World, SweepAt, control)
  /\ ScriptFits(World, SweepAt, task)
  /\ LET r == ai_think(World, SweepAt, control, task, rate, heard)
     IN /\ Commit(UpdateStep(r.w, SweepAt, sweep.dt))
        /\ thought' = r.seen
  /\ sweep' = Stepped("update", SweepAt)
  /\ pass' = Updated(SweepAt)
  /\ Unseen
  /\ UNCHANGED mission_cargo_id

\* The iteration for every other pilot: the player's think, a hyperspace
\* step, an arrival check or no thinking at all, then its update.
PhysFor(p) ==
  IF ThinkMode(p) \in {"hyperspace", "arrive"} THEN PhysSet ELSE {NoPhys}

SweepUpdate(phys) ==
  /\ sweep.active
  /\ sweep.i < pilot_nstack
  /\ ~pilot_isFlag(pilots[SweepAt], "DELETE")
  /\ ThinkMode(pilots[SweepAt]) # "ai_think"
  /\ phys \in PhysFor(pilots[SweepAt])
  /\ LET a == SweepAt
         p == pilots[a]
         mode == ThinkMode(p)
         w1 == CASE mode = "hyperspace" ->
                      [World EXCEPT !.pilots[a] = pilot_hyperspace(p, a = player, phys)]
                 [] mode = "arrive" ->
                      [World EXCEPT !.pilots[a] =
                         IF phys.slow THEN pilot_rmFlag(p, "HYP_END") ELSE p]
                 [] mode = "player_think" -> player_think(World, a)
                 [] OTHER -> World
     IN Commit(UpdateStep(w1, a, sweep.dt))
  /\ sweep' = Stepped("update", SweepAt)
  /\ pass' = Updated(SweepAt)
  /\ thought' = NoThought
  /\ Unseen
  /\ UNCHANGED mission_cargo_id

\* The loop condition fails: the pass is over.
SweepEnd ==
  /\ sweep.active
  /\ sweep.i >= pilot_nstack
  /\ sweep' = NoSweep
  /\ pass' = [pass EXCEPT !.done = TRUE]
  /\ thought' = NoThought
  /\ Unseen
  /\ UNCHANGED <<pilots, pilot_stack, pilot_mstack, pilot_id, player,
                 player_enemies, mission_cargo_id, cur_pilot>>

Blows == {<<20, 20>>}
ControlRates == {2000}

Next ==
  \/ \E ship \in {"llama"}, flags \in {{}, {"PLAYER"}}, loadout \in DOMAIN Loadouts :
       Create(ship, flags, loadout)
  \/ \E a \in Addrs, b \in Blows : Hit(a, "kinetic", b[1], b[2])
  \/ PilotsClean
  \/ PilotsCleanAll
  \/ \E dt \in TickLengths : SweepBegin(dt)
  \/ SweepDestroy
  \/ \E control \in ControlScripts, task \in TaskScripts, rate \in ControlRates,
        heard \in {TRUE} : SweepThink(control, task, rate, heard)
  \/ \E phys \in PhysSet : SweepUpdate(phys)
  \/ SweepEnd

Spec == Init /\ [][Next]_vars

(***************************************************************************)
(* The damage specification: one pilot, the player's or not, takes blows   *)
(* of every kind and size between the passes of pilots_update.             *)
(***************************************************************************)
Damages == 0..6
DamageTypes == {"kinetic", "emp"}

InitHit ==
  \E flags \in {{}, {"PLAYER"}} :
    StartsAs(pilot_create(Boot, "llama", flags, "PLAYER" \notin flags,
                          Ships["llama"].fuel, "bare"))

NextHit ==
  \/ \E a \in Addrs, dtype \in DamageTypes, ds \in Damages, da \in Damages :
       Hit(a, dtype, ds, da)
  \/ \E dt \in {1000} \cup TickLengths : SweepBegin(dt)
  \/ SweepDestroy
  \/ \E control \in ControlScripts, task \in TaskScripts, rate \in ControlRates :
       SweepThink(control, task, rate, TRUE)
  \/ \E phys \in PhysSet : SweepUpdate(phys)
  \/ SweepEnd

SpecHit == InitHit /\ [][NextHit]_vars

(***************************************************************************)
(* The mass specification: one pilot's cargo, outfits and ammunition are   *)
(* changed through the pilot interface, and it fires its weapons.          *)
(***************************************************************************)
MaxCargoId == 2
Quantities == {1, 2}

\* The pilot at address a is replaced by p.
Becomes(a, p) ==
  /\ pilots' = [pilots EXCEPT ![a] = p]
  /\ UNCHANGED <<pilot_stack, pilot_mstack, pilot_id, player, player_enemies,
                 cur_pilot, sweep, pass, thought, tasks, last>>

AddCargo(a, cargo, quantity) ==
  /\ a \in Range(pilot_stack)
  /\ Becomes(a, pilot_addCargo(pilots[a], cargo, quantity).p)
  /\ UNCHANGED mission_cargo_id

RmCargo(a, cargo, quantity) ==
  /\ a \in Range(pilot_stack)
  /\ Becomes(a, pilot_rmCargo(pilots[a], cargo, quantity).p)
  /\ UNCHANGED mission_cargo_id

AddMissionCargo(a, cargo, quantity) ==
  /\ a \in Range(pilot_stack)
  /\ mission_cargo_id < MaxCargoId
  /\ LET r == pilot_addMissionCargo(pilots[a], cargo, quantity, mission_cargo_id)
     IN Becomes(a, r.p) /\ mission_cargo_id' = r.mcid

RmMissionCargo(a, cargo_id) ==
  /\ a \in Range(pilot_stack)
  /\ Becomes(a, pilot_rmMissionCargo(pilots[a], cargo_id).p)
  /\ UNCHANGED mission_cargo_id

AddOutfit(a, outfit, s) ==
  /\ a \in Range(pilot_stack)
  /\ s \in 1..Len(pilots[a].outfits)
  /\ Becomes(a, pilot_addOutfit(pilots[a], outfit, s).p)
  /\ UNCHANGED mission_cargo_id

RmOutfit(a, s) ==
  /\ a \in Range(pilot_stack)
  /\ s \in 1..Len(pilots[a].outfits)
  /\ pilots[a].outfits[s].outfit # "none"
  /\ Becomes(a, pilot_rmOutfit(pilots[a], s).p)
  /\ UNCHANGED mission_cargo_id

AddAmmo(a, s, ammo, quantity) ==
  /\ a \in Range(pilot_stack)
  /\ s \in 1..Len(pilots[a].outfits)
  /\ Becomes(a, pilot_addAmmo(pilots[a], s, ammo, quantity).p)
  /\ UNCHANGED mission_cargo_id

RmAmmo(a, s, quantity) ==
  /\ a \in Range(pilot_stack)
  /\ s \in 1..Len(pilots[a].outfits)
  /\ Becomes(a, pilot_rmAmmo(pilots[a], s, quantity).p)
  /\ UNCHANGED mission_cargo_id

\* The pilot selects its secondary weapon.
SelectSecondary(a) ==
  /\ a \in Range(pilot_stack)
  /\ Becomes(a, aiL_secondary(pilots[a]))
  /\ UNCHANGED mission_cargo_id

\* pilot_shootSecondary: a launcher fires a round, a fighter bay launches.
FireSecondary(a) ==
  /\ a \in Range(pilot_stack)
  /\ BaysLoaded(pilots[a]) <= HeapRoom(World)
  /\ Commit(ShootSecondary(World, a))
  /\ UNCHANGED <<mission_cargo_id, sweep, pass, thought, tasks, last>>

InitMass ==
  StartsAs(pilot_create(Boot, "llama", {}, TRUE, Ships["llama"].fuel, "bare"))

NextMass ==
  \/ \E a \in Addrs, q \in Quantities : AddCargo(a, "food", q)
  \/ \E a \in Addrs, q \in Quantities : RmCargo(a, "food", q)
  \/ \E a \in Addrs : AddMissionCargo(a, "ore", 1)
  \/ \E a \in Addrs, id \in 1..MaxCargoId : RmMissionCargo(a, id)
  \/ \E a \in Addrs, o \in {"rack", "bay"} : AddOutfit(a, o, 2)
  \/ \E a \in Addrs : AddOutfit(a, "plating", 1)
  \/ \E a \in Addrs, s \in 1..2 : RmOutfit(a, s)
  \/ \E a \in Addrs, m \in {"missile", "drone"} : AddAmmo(a, 2, m, 1)
  \/ \E a \in Addrs : RmAmmo(a, 2, 1)
  \/ \E a \in Addrs : SelectSecondary(a)
  \/ \E a \in Addrs : FireSecondary(a)

SpecMass == InitMass /\ [][NextMass]_vars

(***************************************************************************)
(* The task specification: the scripts of one pilot with an AI push and    *)
(* pop tasks, the pilot is asked to refuel another, and it is destroyed;   *)
(* a pilot created after it starts without tasks.                          *)
(***************************************************************************)
\* A script of the current pilot can run: it is registered and the process
\* is alive.
Scripted == cur_pilot \in Range(pilot_stack) /\ ~tasks.fault

\* The Task objects become ts; the pilot's task list follows the chain.
TasksBecome(ts) ==
  /\ tasks' = ts
  /\ pilots' = [pilots EXCEPT ![cur_pilot].task = ChainNames(ts)]
  /\ UNCHANGED <<pilot_stack, pilot_mstack, pilot_id, player, player_enemies,
                 mission_cargo_id, cur_pilot, sweep, pass, thought>>

PushTask(pos, func, ub) ==
  /\ Scripted
  /\ TaskRoom(tasks) # {}
  /\ TasksBecome(pushtask(tasks, pos, func, ub))
  /\ last' = Called("pushtask", <<pos, func>>, tasks, 0)

PopTask ==
  /\ Scripted
  /\ TasksBecome(poptask(tasks))
  /\ last' = [Called("poptask", <<>>, tasks, 0) EXCEPT
                !.prior = [op |-> last.op, arg |-> last.arg, before |-> last.before]]

RefuelTask ==
  /\ Scripted
  /\ TaskRoom(tasks) # {}
  /\ TasksBecome(ai_refuel(tasks))
  /\ last' = Called("ai_refuel", <<>>, tasks, 0)

\* pilot_destroy of the current pilot.
DestroyTasked ==
  /\ Scripted
  /\ Idling
  /\ Commit(pilot_destroy(World, cur_pilot))
  /\ tasks' = TasksFree(tasks, pilots[cur_pilot].ai)
  /\ last' = Called("pilot_free", <<cur_pilot>>, tasks, 0)
  /\ UNCHANGED <<mission_cargo_id, sweep, pass, thought>>

\* A pilot with an AI is created when there is none.
CreateTasked ==
  /\ pilot_stack = <<>>
  /\ ~tasks.fault
  /\ Create("llama", {}, "bare")

NextTask ==
  \/ CreateTasked
  \/ \E pos \in {0, 1}, func \in TaskNames, ub \in {"fault", "astray"} :
       PushTask(pos, func, ub)
  \/ PopTask
  \/ RefuelTask
  \/ DestroyTasked

SpecTask == Init /\ [][NextTask]_vars

(***************************************************************************)
(* The firing specification: one pilot in a ship with two weapon slots is  *)
(* told to fire, tick after tick of one length.  A tick is the think step, *)
(* where the weapons are fired, then pilot_update.  In the history, prior  *)
(* is the clock: the tick length, the time now, whether the pilot was told *)
(* to fire its primary weapons with the energy for a shot in every tick so *)
(* far, and the slot and time of the latest shot of an earlier tick.       *)
(***************************************************************************)
MaxTicks == 16
FireLoadouts ==
  [guns |-> <<[outfit |-> "laser", ammo |-> "none", quantity |-> 0],
              [outfit |-> "laser", ammo |-> "none", quantity |-> 0]>>,
   rack |-> <<[outfit |-> "rack", ammo |-> "missile", quantity |-> 1],
              [outfit |-> "laser", ammo |-> "none", quantity |-> 0]>>]

\* The pilot of the firing specification: the loadout in the high slots, an
\* afterburner in the medium slot, the secondary weapon selected.
Armed(w, a, load) ==
  [w EXCEPT !.pilots[a] =
     aiL_secondary(pilot_addOutfit(Equip(@, FireLoadouts[load]), "burner", 1).p)]

Clock(dt) == [dt |-> dt, now |-> 0, steady |-> TRUE, slot |-> NULL, at |-> 0]

InitFire ==
  \E load \in DOMAIN FireLoadouts, dt \in {100, 1000} :
    \E w \in {Armed(pilot_create(Boot, "hawk", {}, TRUE, Ships["hawk"].fuel, "bare"),
                    1, load)} :
      /\ pilots = w.pilots
      /\ pilot_stack = w.pilot_stack
      /\ pilot_mstack = w.pilot_mstack
      /\ pilot_id = w.pilot_id
      /\ player = w.player
      /\ player_enemies = w.player_enemies
      /\ cur_pilot = w.cur_pilot
      /\ mission_cargo_id = 0
      /\ sweep = NoSweep
      /\ pass = NoPass
      /\ thought = NoThought
      /\ tasks = NoTasks
      /\ last = [NoCall EXCEPT !.prior = Clock(dt)]

\* The slots whose weapon a call has fired: the timer went up by the delay.
FiredSlots(p, q) ==
  {k \in 1..Len(p.outfits) : q.outfits[k].timer > p.outfits[k].timer}

\* The pilot has the energy for a shot of each of its weapons.
Powered(p) ==
  \A k \in HighSlots(p) :
    p.outfits[k].outfit # "none" => outfit_energy(p.outfits[k].outfit) <= p.energy

\* The pilot at address a becomes p; the history is written by the action.
FireBecomes(a, p) ==
  /\ pilots' = [pilots EXCEPT ![a] = p]
  /\ UNCHANGED <<pilot_stack, pilot_mstack, pilot_id, player, player_enemies,
                 mission_cargo_id, cur_pilot, sweep, pass, thought, tasks>>

\* The think step of a tick: the pilot fires its primary weapons, fires its
\* secondary weapon, or does not fire.
FireShoot(a, cmd) ==
  /\ a \in Range(pilot_stack)
  /\ last.op # "pilot_shoot"
  /\ \E r \in {IF cmd = "primary" THEN pilot_shoot(pilots[a], 0)
               ELSE IF cmd = "secondary" THEN pilot_shootSecondary(pilots[a])
               ELSE [p |-> pilots[a], spawns |-> <<>>]} :
       /\ FireBecomes(a, r.p)
       /\ last' = [op |-> "pilot_shoot", arg |-> <<a, cmd>>, before |-> pilots[a],
                   ret |-> [spawns |-> r.spawns,
                            fired |-> FiredSlots(pilots[a], r.p)],
                   prior |-> [last.prior EXCEPT
                                !.steady = /\ @
                                           /\ cmd = "primary"
                                           /\ last.prior.dt = 100
                                           /\ Powered(pilots[a])]]

\* The rounding of an update that took p to q: a timer that was run down
\* by a tick length with no exact binary value ends where r says.
Inexact(p, q, dt, r) ==
  IF dt % 125 = 0 THEN q
  ELSE [q EXCEPT !.outfits = [k \in 1..Len(q.outfits) |->
                                IF q.outfits[k].timer # p.outfits[k].timer
                                THEN [q.outfits[k] EXCEPT !.over = r[k]]
                                ELSE q.outfits[k]]]

\* The update step of a tick.
FireUpdate(a) ==
  /\ a \in Range(pilot_stack)
  /\ last.op = "pilot_shoot"
  /\ last.prior.now < MaxTicks * last.prior.dt
  /\ \E r \in [1..Len(pilots[a].outfits) -> BOOLEAN] :
       FireBecomes(a, Inexact(pilots[a], pilot_update(pilots[a], last.prior.dt),
                              last.prior.dt, r))
  /\ last' = [op |-> "pilot_update", arg |-> <<a, last.prior.dt>>,
              before |-> pilots[a], ret |-> 0,
              prior |-> [last.prior EXCEPT
                           !.now = @ + last.prior.dt,
                           !.slot = IF last.ret.fired = {} THEN @
                                    ELSE CHOOSE k \in last.ret.fired : TRUE,
                           !.at = IF last.ret.fired = {} THEN @ ELSE last.prior.now]]

\* pilot_shootWeapon on one slot, before the think step of a tick.
ShootWeapon(a, k) ==
  /\ a \in Range(pilot_stack)
  /\ last.op # "pilot_shoot"
  /\ k \in HighSlots(pilots[a])
  /\ pilots[a].outfits[k].outfit # "none"
  /\ \E r \in {pilot_shootWeapon(pilots[a], k)} :
       /\ FireBecomes(a, r.p)
       /\ last' = [op |-> "pilot_shootWeapon", arg |-> <<a, k>>,
                   before |-> pilots[a], ret |-> r.spawn,
                   prior |-> [last.prior EXCEPT !.steady = FALSE]]

\* The afterburner is switched on.
Afterburn(a) ==
  /\ a \in Range(pilot_stack)
  /\ last.op # "pilot_shoot"
  /\ pilots[a].afterburner # NULL
  /\ ~pilot_isFlag(pilots[a], "AFTERBURNER")
  /\ FireBecomes(a, pilot_setFlag(pilots[a], "AFTERBURNER"))
  /\ last' = [op |-> "afterburn", arg |-> <<a>>, before |-> pilots[a], ret |-> 0,
              prior |-> last.prior]

NextFire ==
  \/ \E a \in Addrs, cmd \in {"primary", "secondary", "none"} : FireShoot(a, cmd)
  \/ \E a \in Addrs : FireUpdate(a)
  \/ \E a \in Addrs, k \in 1..3 : ShootWeapon(a, k)
  \/ \E a \in Addrs : Afterburn(a)

SpecFire == InitFire /\ [][NextFire]_vars

(***************************************************************************)
(* The jump specification: one pilot, the player's or not, that is getting *)
(* ready for hyperspace goes through the passes of pilots_update, with the *)
(* jump called off between passes or not.  last.prior is the clock: the    *)
(* tick length, the simulated time that has passed, the time at which the  *)
(* pilot was first at rest and facing its way (aligned, t0), whether the   *)
(* jump was left alone since (steady), and the passes made without a jump  *)
(* on the way (idle).  A run ends MaxJumpTicks passes after t0, or after   *)
(* MaxWait passes without a jump on the way.                               *)
(***************************************************************************)
MaxJumpTicks == 90
MaxWait == 3

JumpClock(dt) ==
  [dt |-> dt, now |-> 0, aligned |-> FALSE, t0 |-> 0, steady |-> TRUE, idle |-> 0,
   prev |-> [op |-> "none", flags |-> {}]]

Preparing(p) ==
  /\ pilot_isFlag(p, "HYP_PREP")
  /\ ~pilot_isFlag(p, "HYP_BEGIN") /\ ~pilot_isFlag(p, "HYPERSPACE")
Warming(p) == pilot_isFlag(p, "HYP_BEGIN") /\ ~pilot_isFlag(p, "HYPERSPACE")
InTransit(p) == pilot_isFlag(p, "HYPERSPACE")

InitJump ==
  \E flags \in {{}, {"PLAYER"}}, dt \in {100, 1000} :
    \E w \in {pilot_create(Boot, "llama", flags, "PLAYER" \notin flags,
                            Ships["llama"].fuel, "bare")} :
      /\ pilots = [w.pilots EXCEPT ![1] = pilot_setFlag(@, "HYP_PREP")]
      /\ pilot_stack = w.pilot_stack
      /\ pilot_mstack = w.pilot_mstack
      /\ pilot_id = w.pilot_id
      /\ player = w.player
      /\ player_enemies = w.player_enemies
      /\ cur_pilot = w.cur_pilot
      /\ mission_cargo_id = 0
      /\ sweep = NoSweep
      /\ pass = NoPass
      /\ thought = NoThought
      /\ tasks = NoTasks
      /\ last = [NoCall EXCEPT !.prior = JumpClock(dt)]

\* One iteration of pilots_update on a pilot that is not flagged DELETE.
PassThink(w, a, dt, phys) ==
  With(ThinkMode(w.pilots[a]), LAMBDA mode :
    UpdateStep(
      CASE mode = "hyperspace" ->
             [w EXCEPT !.pilots[a] = pilot_hyperspace(w.pilots[a], a = w.player, phys)]
        [] mode = "arrive" ->
             [w EXCEPT !.pilots[a] =
                IF phys.slow THEN pilot_rmFlag(@, "HYP_END") ELSE @]
        [] mode = "player_think" -> player_think(w, a)
        [] mode = "ai_think" -> LET r == ai_think(w, a, Idle, Idle, 2000, FALSE) IN r.w
        [] OTHER -> w,
      a, dt))

\* pilots_update from index i on; a pilot met with DELETE set is destroyed
\* and the index moves on all the same.
RECURSIVE PassFrom(_, _, _, _)
PassFrom(w, i, dt, phys) ==
  IF i >= Len(w.pilot_stack) THEN w
  ELSE With(w.pilot_stack[i + 1], LAMBDA a :
       With(IF pilot_isFlag(w.pilots[a], "DELETE") THEN pilot_destroy(w, a)
            ELSE PassThink(w, a, dt, phys),
            LAMBDA w1 : PassFrom(w1, i + 1, dt, phys)))

\* The rounding of ptimer -= dt for a tick length with no exact binary
\* value: the timers of the registered pilots end where u says.
InexactTimers(w, dt, u) ==
  IF dt % 125 = 0 THEN w
  ELSE [w EXCEPT !.pilots = [a \in Addrs |->
                               IF a \in Range(w.pilot_stack)
                               THEN [w.pilots[a] EXCEPT !.punder = u]
                               ELSE w.pilots[a]]]

\* What the pass does with the pilot at address a.
PassKind(a) ==
  IF a \notin Range(pilot_stack) THEN "absent"
  ELSE IF pilot_isFlag(pilots[a], "DELETE") THEN "destroy"
  ELSE ThinkMode(pilots[a])

\* The physics a pass may meet: it is read only while the pilot gets ready.
JumpPhys(p) ==
  IF ThinkMode(p) = "hyperspace" /\ Preparing(p)
  THEN {ph \in PhysSet : ~ph.slow}
  ELSE {NoPhys}

\* The pass finds the pilot getting ready, at rest and facing its way.
JumpAligned(phys) ==
  /\ PassKind(1) = "hyperspace"
  /\ Preparing(pilots[1])
  /\ ~phys.moving /\ phys.facing

\* One pass of pilots_update.
JumpTick(phys, u) ==
  /\ last.prior.idle < MaxWait
  /\ IF ~last.prior.aligned
     THEN last.prior.now < MaxWait * last.prior.dt
     ELSE last.prior.now - last.prior.t0 < MaxJumpTicks * last.prior.dt
  /\ pilot_stack # <<>>
  /\ phys \in JumpPhys(pilots[1])
  /\ \E w \in {PassFrom(World, 0, last.prior.dt, phys)} :
       Commit(InexactTimers(w, last.prior.dt, u))
  /\ last' = [op |-> "pilots_update", arg |-> <<last.prior.dt, phys>>,
              before |-> pilots[1], ret |-> PassKind(1),
              prior |-> [last.prior EXCEPT
                           !.now = @ + last.prior.dt,
                           !.idle = IF PassKind(1) \in {"hyperspace", "destroy"}
                                    THEN @ ELSE @ + 1,
                           !.aligned = @ \/ JumpAligned(phys),
                           !.t0 = IF ~last.prior.aligned /\ JumpAligned(phys)
                                  THEN last.prior.now ELSE @,
                           !.prev = [op |-> last.op,
                                     flags |-> IF last.op = "none" THEN {}
                                               ELSE last.before.flags]]]
  /\ UNCHANGED <<mission_cargo_id, sweep, pass, thought, tasks>>

\* pilot_hyperspaceAbort between two passes.
JumpAbort(a) ==
  /\ a \in Range(pilot_stack)
  /\ last.op # "pilot_hyperspaceAbort"
  /\ FireBecomes(a, pilot_hyperspaceAbort(pilots[a]))
  /\ last' = [op |-> "pilot_hyperspaceAbort", arg |-> <<a>>, before |-> pilots[a],
              ret |-> 0, prior |-> [last.prior EXCEPT !.steady = FALSE]]

NextJump ==
  \/ \E phys \in PhysSet, u \in BOOLEAN : JumpTick(phys, u)
  \/ \E a \in Addrs : JumpAbort(a)

SpecJump == InitJump /\ [][NextJump]_vars

(***************************************************************************)
(* The refit specification: one pilot, the player's or not, is hit, goes   *)
(* through its update and has outfits put into and taken out of its two    *)
(* slots, in any order.                                                    *)
(***************************************************************************)
RefitOutfits == {"thinhull", "drain", "burner"}
RefitDamages == {1, 8}

\* The fills pilot_calcStats carried over from p to q are whole numbers:
\* armour, shield, energy and fuel are the same parts of their maxima in q
\* as in p.  The outfit changes of this specification are those for which
\* they are.
FillKept(p, q) ==
  /\ q.armour * p.armour_max = p.armour * q.armour_max
  /\ q.shield * p.shield_max = p.shield * q.shield_max
  /\ q.energy * p.energy_max = p.energy * q.energy_max
  /\ q.fuel * p.fuel_max = p.fuel * q.fuel_max

\* pilot_addOutfit on a slot of a registered pilot.
Refit(a, outfit, s) ==
  /\ a \in Range(pilot_stack)
  /\ s \in 1..Len(pilots[a].outfits)
  /\ \E r \in {pilot_addOutfit(pilots[a], outfit, s)} :
       /\ FillKept(pilots[a], r.p)
       /\ FireBecomes(a, r.p)
       /\ last' = Called("pilot_addOutfit", <<a, outfit, s>>, pilots[a], r.ret)

\* pilot_rmOutfit on a slot of a registered pilot.
Strip(a, s) ==
  /\ a \in Range(pilot_stack)
  /\ s \in 1..Len(pilots[a].outfits)
  /\ \E r \in {pilot_rmOutfit(pilots[a], s)} :
       /\ FillKept(pilots[a], r.p)
       /\ FireBecomes(a, r.p)
       /\ last' = Called("pilot_rmOutfit", <<a, s>>, pilots[a], r.ret)

\* p->update(p, dt) on a registered pilot that is not flagged for deletion.
Tick(a, dt) ==
  /\ a \in Range(pilot_stack)
  /\ ~pilot_isFlag(pilots[a], "DELETE")
  /\ \E w \in {UpdateStep(World, a, dt)} :
       /\ FireBecomes(a, w.pilots[a])
       /\ last' = Called("pilot_update", <<a, dt>>, pilots[a], 0)

InitRefit ==
  \E flags \in {{}, {"PLAYER"}} :
    StartsAs(pilot_create(Boot, "llama", flags, "PLAYER" \notin flags,
                          Ships["llama"].fuel, "bare"))

NextRefit ==
  \/ \E a \in Addrs, ds \in RefitDamages, da \in RefitDamages :
       Hit(a, "kinetic", ds, da)
  \/ \E a \in Addrs, dt \in {1000} : Tick(a, dt)
  \/ \E a \in Addrs, o \in RefitOutfits, s \in 1..2 : Refit(a, o, s)
  \/ \E a \in Addrs, s \in 1..2 : Strip(a, s)

SpecRefit == InitRefit /\ [][NextRefit]_vars

(***************************************************************************)
(* The refuelling specification: two pilots with the fuel that ai_pinit    *)
(* may give them pick a target, start to refuel it and are updated.        *)
(***************************************************************************)
FuelLevels == {HYPERSPACE_FUEL, 150, Ships["tanker"].fuel}
RefuelTicks == {1500, 3000}

\* The registry changes in its pilots only.
PilotsBecome(ps) ==
  /\ pilots' = ps
  /\ UNCHANGED <<pilot_stack, pilot_mstack, pilot_id, player, player_enemies,
                 mission_cargo_id, cur_pilot, sweep, pass, thought, tasks>>

\* ai_settarget
SetTarget(a, b) ==
  /\ a \in Range(pilot_stack)
  /\ b \in Range(pilot_stack) \cup {NULL}
  /\ ~pilot_isFlag(pilots[a], "REFUELBOARDING")
  /\ \E id \in {IF b = NULL THEN PLAYER_ID ELSE pilots[b].id} :
       /\ PilotsBecome([pilots EXCEPT ![a] = pilot_set_target(@, id)])
       /\ last' = Called("pilot_set_target", <<a, id>>, pilots[a], 0)

\* ai_refuel, of a pilot that has not run into debt.
RefuelStart(a, near) ==
  /\ a \in Range(pilot_stack)
  /\ pilots[a].fuel >= 0
  /\ \E r \in {pilot_refuelStart(World, a, near)} :
       /\ PilotsBecome(r.w.pilots)
       /\ last' = Called("pilot_refuelStart", <<a, near>>, pilots, r.ret)

\* pilot_update of one pilot, with the fuel it gives.
RefuelTick(a, dt) ==
  /\ a \in Range(pilot_stack)
  /\ \E w \in {UpdateStep(World, a, dt)} :
       /\ PilotsBecome(w.pilots)
       /\ last' = Called("pilot_update", <<a, dt>>, pilots, 0)

InitRefuel ==
  \E f1 \in FuelLevels, f2 \in FuelLevels :
    StartsAs(pilot_create(pilot_create(Boot, "tanker", {}, TRUE, f1, "bare"),
                          "tanker", {}, TRUE, f2, "bare"))

NextRefuel ==
  \/ \E a \in Addrs, b \in Addrs \cup {NULL} : SetTarget(a, b)
  \/ \E a \in Addrs, near \in BOOLEAN : RefuelStart(a, near)
  \/ \E a \in Addrs, dt \in RefuelTicks : RefuelTick(a, dt)

SpecRefuel == InitRefuel /\ [][NextRefuel]_vars

(***************************************************************************)
(* The cargo specification: ordinary and mission cargo of one commodity is *)
(* added to one pilot and removed from it.  last.prior holds the call      *)
(* before the last one.                                                    *)
(***************************************************************************)
CargoAmounts == {0, 1, 2}

\* The call now made, with the one before it.
After(op, arg, before, ret) ==
  [Called(op, arg, before, ret) EXCEPT !.prior = [last EXCEPT !.prior = <<>>]]

CargoAdd(a, cargo, quantity) ==
  /\ a \in Range(pilot_stack)
  /\ \E r \in {pilot_addCargo(pilots[a], cargo, quantity)} :
       /\ FireBecomes(a, r.p)
       /\ last' = After("pilot_addCargo", <<a, cargo, quantity>>, pilots[a], r.ret)

CargoRm(a, cargo, quantity) ==
  /\ a \in Range(pilot_stack)
  /\ \E r \in {pilot_rmCargo(pilots[a], cargo, quantity)} :
       /\ FireBecomes(a, r.p)
       /\ last' = After("pilot_rmCargo", <<a, cargo, quantity>>, pilots[a], r.ret)

CargoAddMission(a, cargo, quantity) ==
  /\ a \in Range(pilot_stack)
  /\ mission_cargo_id < MaxCargoId
  /\ \E r \in {pilot_addMissionCargo(pilots[a], cargo, quantity, mission_cargo_id)} :
       /\ pilots' = [pilots EXCEPT ![a] = r.p]
       /\ mission_cargo_id' = r.mcid
       /\ last' = After("pilot_addMissionCargo", <<a, cargo, quantity>>, pilots[a],
                        r.ret)
  /\ UNCHANGED <<pilot_stack, pilot_mstack, pilot_id, player, player_enemies,
                 cur_pilot, sweep, pass, thought, tasks>>

CargoRmMission(a, cargo_id) ==
  /\ a \in Range(pilot_stack)
  /\ \E r \in {pilot_rmMissionCargo(pilots[a], cargo_id)} :
       /\ FireBecomes(a, r.p)
       /\ last' = After("pilot_rmMissionCargo", <<a, cargo_id>>, pilots[a], r.ret)

InitCargo ==
  StartsAs(pilot_create(Boot, "llama", {}, TRUE, Ships["llama"].fuel, "bare"))

NextCargo ==
  \/ \E a \in Addrs, q \in CargoAmounts : CargoAdd(a, "food", q)
  \/ \E a \in Addrs, q \in CargoAmounts : CargoRm(a, "food", q)
  \/ \E a \in Addrs, q \in CargoAmounts \ {0} : CargoAddMission(a, "food", q)
  \/ \E a \in Addrs, id \in 1..MaxCargoId : CargoRmMission(a, id)

SpecCargo == InitCargo /\ [][NextCargo]_vars

(***************************************************************************)
(* The timer specification: the script of one pilot sets each of its AI    *)
(* timers at most once, and the pilot is updated with ticks of one length. *)
(* last.prior holds the tick length and the timers that were set.  The     *)
(* durations and the tick lengths are such that no timer comes to 0 by a   *)
(* tick length without an exact binary value.                              *)
(***************************************************************************)
TimerDurations == {500, 1000}
TimerTicks == {250, 300}

\* aiL_settimer(n, d) of a timer that was not set before.
SetTimer(a, n, d) ==
  /\ a \in Range(pilot_stack)
  /\ n \notin last.prior.set
  /\ FireBecomes(a, pilot_set_timer(pilots[a], n, d))
  /\ last' = [op |-> "aiL_settimer", arg |-> <<a, n, d>>, before |-> pilots[a],
              ret |-> 0, prior |-> [last.prior EXCEPT !.set = @ \cup {n}]]

\* pilot_update with the tick length of the run.
TimerTick(a) ==
  /\ a \in Range(pilot_stack)
  /\ \E w \in {UpdateStep(World, a, last.prior.dt)} :
       /\ FireBecomes(a, w.pilots[a])
       /\ last' = [op |-> "pilot_update", arg |-> <<a, last.prior.dt>>,
                   before |-> pilots[a], ret |-> 0, prior |-> last.prior]

InitTimer ==
  \E dt \in TimerTicks :
    \E w \in {pilot_create(Boot, "llama", {}, TRUE, Ships["llama"].fuel, "bare")} :
      /\ pilots = w.pilots
      /\ pilot_stack = w.pilot_stack
      /\ pilot_mstack = w.pilot_mstack
      /\ pilot_id = w.pilot_id
      /\ player = w.player
      /\ player_enemies = w.player_enemies
      /\ cur_pilot = w.cur_pilot
      /\ mission_cargo_id = 0
      /\ sweep = NoSweep
      /\ pass = NoPass
      /\ thought = NoThought
      /\ tasks = NoTasks
      /\ last = [NoCall EXCEPT !.prior = [dt |-> dt, set |-> {}]]

NextTimerTick == \E a \in Addrs : TimerTick(a)

NextTimer ==
  \/ \E a \in Addrs, n \in 0..(MAX_AI_TIMERS - 1), d \in TimerDurations :
       SetTimer(a, n, d)
  \/ NextTimerTick

\* The pilot keeps being updated.
SpecTimer == InitTimer /\ [][NextTimer]_vars /\ WF_vars(NextTimerTick)

(***************************************************************************)
(* The hostility specification: two pilots that are not the player's are   *)
(* marked hostile, unmarked, marked friendly, hit and destroyed.           *)
(***************************************************************************)
HostileBlows == {<<0, 2>>, <<20, 20>>}

\* The counter is followed up to this value.
MaxEnemies == 3

\* pilot_setHostile, pilot_rmHostile and pilot_setFriendly on a registered
\* pilot.
Mark(a, op, r) ==
  /\ a \in Range(pilot_stack)
  /\ pilots' = [pilots EXCEPT ![a] = r.p]
  /\ player_enemies' = r.enemies
  /\ last' = Called(op, <<a>>, pilots[a], 0)
  /\ UNCHANGED <<pilot_stack, pilot_mstack, pilot_id, player, mission_cargo_id,
                 cur_pilot, sweep, pass, thought, tasks>>

SetHostile(a) ==
  a \in Range(pilot_stack) /\ player_enemies < MaxEnemies /\
    Mark(a, "pilot_setHostile", pilot_setHostile(pilots[a], player_enemies))

RmHostile(a) ==
  a \in Range(pilot_stack) /\
    Mark(a, "pilot_rmHostile", pilot_rmHostile(pilots[a], player_enemies))

SetFriendly(a) ==
  a \in Range(pilot_stack) /\
    Mark(a, "pilot_setFriendly", pilot_setFriendly(pilots[a], player_enemies))

\* pilot_destroy on a registered pilot.
Destroy(a) ==
  /\ a \in Range(pilot_stack)
  /\ Commit(pilot_destroy(World, a))
  /\ last' = Called("pilot_destroy", <<a>>, pilots[a], 0)
  /\ UNCHANGED <<mission_cargo_id, sweep, pass, thought, tasks>>

InitHostile ==
  StartsAs(pilot_create(pilot_create(Boot, "llama", {}, TRUE,
                                     Ships["llama"].fuel, "bare"),
                        "llama", {}, TRUE, Ships["llama"].fuel, "bare"))

NextHostile ==
  \/ \E a \in Addrs : SetHostile(a)
  \/ \E a \in Addrs : RmHostile(a)
  \/ \E a \in Addrs : SetFriendly(a)
  \/ \E a \in Addrs, b \in HostileBlows : Hit(a, "kinetic", b[1], b[2])
  \/ \E a \in Addrs : Destroy(a)

SpecHostile == InitHostile /\ [][NextHostile]_vars

(***************************************************************************)
(* The clean-up specification: pilots are created and hit, with or without *)
(* a player among them, and pilots_clean is called.                        *)
(***************************************************************************)
\* No registered pilot has been freed.
Sound == \A a \in Range(pilot_stack) : pilots[a].mem # "freed"

CreateSound(ship, flags, loadout) == Sound /\ Create(ship, flags, loadout)

HitSound(a, damage_shield, damage_armour) ==
  Sound /\ Hit(a, "kinetic", damage_shield, damage_armour)

\* pilots_clean, with a player or without one.
Clean ==
  /\ Sound
  /\ pilot_stack # <<>>
  /\ Commit(pilots_clean(World))
  /\ last' = Called("pilots_clean", <<>>,
                    [pilot_stack |-> pilot_stack, player |-> player], 0)
  /\ UNCHANGED <<mission_cargo_id, sweep, pass, thought, tasks>>

NextClean ==
  \/ \E flags \in {{}, {"PLAYER"}}, loadout \in DOMAIN Loadouts :
       CreateSound("llama", flags, loadout)
  \/ \E a \in Addrs, b \in HostileBlows : HitSound(a, b[1], b[2])
  \/ Clean

SpecClean == Init /\ [][NextClean]_vars

(***************************************************************************)
(* The cargo transfer specification: two pilots take cargo on and hand it  *)
(* to each other with pilot_moveCargo.                                     *)
(***************************************************************************)
\* What a cell of freshly allocated memory may hold.
JunkCells ==
  {[commodity |-> c, quantity |-> q, id |-> 0] : c \in Commodities, q \in {7}}

\* The ledgers are followed up to this length.
MaxLedger == 2

\* pilot_addCargo while the ledger is short.
CargoLoad(a, cargo, quantity) ==
  /\ a \in Range(pilot_stack)
  /\ Len(pilots[a].commodities) < MaxLedger
  /\ CargoAdd(a, cargo, quantity)

\* pilot_moveCargo between two registered pilots.
MoveCargo(d, s, cell) ==
  /\ d \in Range(pilot_stack)
  /\ s \in Range(pilot_stack)
  /\ d # s
  /\ Len(pilots[d].commodities) + Len(pilots[s].commodities) <= MaxLedger
  /\ \E r \in {pilot_moveCargo(pilots[d], pilots[s],
                                [k \in 1..MaxLedger |-> cell])} :
       /\ PilotsBecome([pilots EXCEPT ![d] = r.dest, ![s] = r.src])
       /\ last' = Called("pilot_moveCargo", <<d, s>>,
                         [dest |-> pilots[d], src |-> pilots[s]], r.ret)

InitMove == InitHostile

NextMove ==
  \/ \E a \in Addrs, c \in Commodities, q \in CargoAmounts \ {0} : CargoLoad(a, c, q)
  \/ \E d \in Addrs, s \in Addrs, cell \in JunkCells : MoveCargo(d, s, cell)

SpecMove == InitMove /\ [][NextMove]_vars

(***************************************************************************)
(* The afterburner specification: one pilot has outfits put into and taken *)
(* out of its slots, switches its afterburner on and is updated.           *)
(***************************************************************************)
BurnTicks == {500, 1000}

NextBurn ==
  \/ \E a \in Addrs, o \in RefitOutfits, s \in 1..2 : Refit(a, o, s)
  \/ \E a \in Addrs, s \in 1..2 : Strip(a, s)
  \/ \E a \in Addrs : Afterburn(a)
  \/ \E a \in Addrs, dt \in BurnTicks : Tick(a, dt)

SpecBurn == InitRefit /\ [][NextBurn]_vars

(***************************************************************************)
(* The death specification: a pilot, the player's or not, that is boarding *)
(* or refuelling another or is at some stage of its jump is killed by a    *)
(* blow between two passes of pilots_update, and the passes go on.         *)
(***************************************************************************)
DeathFlags ==
  {{}, {"BOARDING"}, {"REFUELBOARDING", "REFUELING"}, {"HYP_PREP"},
   {"HYP_PREP", "HYP_BEGIN"}, {"HYPERSPACE"}}
DeathTicks == {500, 2000}

\* pilots_update is called; the passes are not counted.
PassBegin(dt) ==
  /\ Idling
  /\ sweep' = [NoSweep EXCEPT !.active = TRUE, !.dt = dt]
  /\ pass' = [n |-> 1, done |-> FALSE,
              start |-> {a \in Range(pilot_stack) : ~pilot_isFlag(pilots[a], "DELETE")},
              del |-> {a \in Range(pilot_stack) : pilot_isFlag(pilots[a], "DELETE")},
              upd |-> [a \in Addrs |-> 0]]
  /\ thought' = NoThought
  /\ Unseen
  /\ UNCHANGED <<pilots, pilot_stack, pilot_mstack, pilot_id, player,
                 player_enemies, mission_cargo_id, cur_pilot>>

\* The first pilot has the second for its target and carries the flags.
InitDeath ==
  \E flags \in {{}, {"PLAYER"}}, carried \in DeathFlags :
    With(pilot_create(pilot_create(Boot, "llama", flags, "PLAYER" \notin flags,
                                   Ships["llama"].fuel, "bare"),
                      "llama", {}, TRUE, Ships["llama"].fuel, "bare"),
         LAMBDA w :
           StartsAs([w EXCEPT !.pilots[1] =
                       [pilot_set_target(@, w.pilots[2].id)
                          EXCEPT !.flags = @ \cup carried]]))

NextPass ==
  \/ \E dt \in DeathTicks : PassBegin(dt)
  \/ SweepDestroy
  \/ SweepThink(Script(<<"accel", "turn">>, TRUE), Script(<<"accel", "turn">>, TRUE),
                2000, TRUE)
  \/ \E phys \in PhysSet : SweepUpdate(phys)
  \/ SweepEnd

NextDeath ==
  \/ \E a \in Addrs : Hit(a, "kinetic", 20, 20)
  \/ NextPass

\* What a step of NextPass does to sweep, the position of the loop: any
\* step that changes sweep in this way is a step of NextPass, and one is
\* always possible.
PassStep ==
  IF ~sweep.active
    THEN \E dt \in DeathTicks : sweep' = [NoSweep EXCEPT !.active = TRUE, !.dt = dt]
  ELSE IF sweep.i < pilot_nstack
    THEN \E kind \in {"destroy", "update"} : sweep' = Stepped(kind, SweepAt)
  ELSE sweep' = NoSweep

\* pilots_update is called again and again and every pass runs to its end.
SpecDeath == InitDeath /\ [][NextDeath]_vars /\ WF_sweep(PassStep)

(***************************************************************************)
(* The fighter bay specification: a carrier has bays fitted and removed,   *)
(* fighters put into and taken out of them, launches them and has them     *)
(* dock.                                                                   *)
(***************************************************************************)
\* pilot_dock by a fighter that is not about to be deleted.
Dock(a, t, deployed, near) ==
  /\ a \in Range(pilot_stack)
  /\ t \in Range(pilot_stack)
  /\ a # t
  /\ ~pilot_isFlag(pilots[a], "DELETE")
  /\ \E r \in {pilot_dock(World, a, t, deployed, near)} :
       /\ Commit(r.w)
       /\ last' = Called("pilot_dock", <<a, t, deployed, near>>, pilots[t], r.ret)
  /\ UNCHANGED <<mission_cargo_id, sweep, pass, thought, tasks>>

InitBay ==
  StartsAs(pilot_create(Boot, "hawk", {}, TRUE, Ships["hawk"].fuel, "carrier"))

NextBay ==
  \/ \E a \in Addrs, s \in 2..3 : AddOutfit(a, "bay", s)
  \/ \E a \in Addrs, s \in 2..3 : RmOutfit(a, s)
  \/ \E a \in Addrs, s \in 1..3, q \in Quantities : AddAmmo(a, s, "drone", q)
  \/ \E a \in Addrs, s \in 1..3, q \in Quantities : RmAmmo(a, s, q)
  \/ \E a \in Addrs : SelectSecondary(a)
  \/ \E a \in Addrs : FireSecondary(a)
  \/ \E a \in Addrs, t \in Addrs, deployed \in BOOLEAN, near \in BOOLEAN :
       Dock(a, t, deployed, near)

SpecBay == InitBay /\ [][NextBay]_vars

(***************************************************************************)
(* The weapon selection specification: the player's pilot and another have *)
(* outfits fitted and their secondary weapon set.                          *)
(***************************************************************************)
\* pilot_switchSecondary by a pilot whose secondary weapon, if it has one,
\* is a slot of its own.
SwitchSecondary(a, s) ==
  /\ a \in Range(pilot_stack)
  /\ player # NULL
  /\ s \in 1..Len(pilots[a].outfits)
  /\ pilots[a].secondary <= Len(pilots[a].outfits)
  /\ Commit(pilot_switchSecondary(World, a, s))
  /\ last' = Called("pilot_switchSecondary", <<a, s>>, pilots, 0)
  /\ UNCHANGED <<mission_cargo_id, sweep, pass, thought, tasks>>

InitSwitch ==
  StartsAs(pilot_create(pilot_create(Boot, "hawk", {"PLAYER"}, FALSE,
                                     Ships["hawk"].fuel, "bare"),
                        "hawk", {}, TRUE, Ships["hawk"].fuel, "bare"))

NextSwitch ==
  \/ \E a \in Addrs, o \in {"rack", "beam"}, s \in 2..3 : AddOutfit(a, o, s)
  \/ \E a \in Addrs, s \in 1..3 : SwitchSecondary(a, s)

SpecSwitch == InitSwitch /\ [][NextSwitch]_vars

(***************************************************************************)
(* Properties.                                                             *)
(***************************************************************************)
Registered == Range(pilot_stack)

\* C1: after every operation on a pilot's cargo, outfits or ammunition, and
\* after firing a launcher or launching a fighter, the pilot's solid mass is
\* its ship's hull mass plus mass_cargo plus mass_outfit.
C1_MassIsHullCargoOutfit ==
  \A a \in Registered :
    pilots[a].solid.mass =
      Ships[pilots[a].ship].mass + pilots[a].mass_cargo + pilots[a].mass_outfit

\* C2: whenever pilot_hit has returned, whatever the damage type, the damage
\* and the pilot's state before, the pilot's armour lies in 0..armour_max and
\* its shield in 0..shield_max.
C2_HitKeepsArmourAndShieldInRange ==
  \A a \in Registered :
    /\ 0 <= pilots[a].armour /\ pilots[a].armour <= pilots[a].armour_max
    /\ 0 <= pilots[a].shield /\ pilots[a].shield <= pilots[a].shield_max

\* A blow has killed a pilot: its shield is gone and its armour, driven to
\* zero or below, stands at zero.
C2_KilledByHit ==
  \E a \in Registered :
    /\ pilot_isFlag(pilots[a], "DEAD")
    /\ ~pilot_isFlag(pilots[a], "DELETE")
    /\ pilots[a].armour = 0
    /\ pilots[a].shield = 0
    /\ ~sweep.active /\ pass.n = 0

\* C3: after any sequence of creations, destructions and bulk cleanups the
\* registry is in strictly ascending order of id, and the binary search for
\* the id of any registered pilot finds that pilot.
C3_RegistryAscendingAndSearchable ==
  /\ \A i \in 1..(Len(pilot_stack) - 1) :
       pilots[pilot_stack[i]].id < pilots[pilot_stack[i + 1]].id
  /\ \A i \in 1..Len(pilot_stack) :
       pilot_getStackPos(World, pilots[pilot_stack[i]].id) = i - 1

\* C4: when a pass of pilots_update is over, every pilot that was registered
\* without the DELETE flag when it began has been updated exactly once.
C4_EveryPilotUpdatedOncePerPass ==
  pass.done => \A a \in pass.start : pass.upd[a] = 1

\* C5: when a pass of pilots_update is over, no pilot that carried the DELETE
\* flag when it began is still registered.
C5_FlaggedPilotsGoneAfterPass ==
  pass.done => pass.del \cap Registered = {}

\* C6: an iteration of pilots_update that lets a pilot think and update
\* leaves the registry's length and capacity as they were when it began.
C6_RegistryFixedDuringThinkAndUpdate ==
  sweep.kind = "update" =>
    /\ Len(pilot_stack) = sweep.len0
    /\ pilot_mstack = sweep.mlen0

\* C7: the destroy step of pilots_update is never applied to the player's
\* pilot.
C7_PlayerNeverDestroyed ==
  ~(sweep.kind = "destroy" /\ sweep.was_player)

\* C8: a pilot that has just thought had exactly one ai_run call made for it.
C8_OneRunPerThink ==
  thought.pilot # NULL => thought.nrun = 1

\* C8, amended: a pilot that has just thought had one ai_run call for control
\* if control was due and one more for its current task if it had a task
\* after that; at least one call is made and at most two.
C8_ControlRunThenTaskRun ==
  thought.pilot # NULL =>
    /\ thought.nrun = (IF thought.due THEN 1 ELSE 0) + (IF thought.has THEN 1 ELSE 0)
    /\ thought.nrun \in {1, 2}

\* Control was due, it pushed a task, and the task ran in the same tick.
C8_BothRanInOneTick ==
  thought.pilot # NULL /\ thought.due /\ thought.has /\ thought.nrun = 2

\* C9: every intent of a pilot that has just thought was applied to that
\* pilot and to no other.
C9_IntentsAppliedToThinker ==
  thought.pilot # NULL =>
    \A to \in {thought.turn_to, thought.thrust_to, thought.primary_to,
               thought.secondary_to, thought.distress_to} :
      to \in {NULL, thought.pilot}

\* C10: when a script of the pilot that has just thought raised an error, the
\* intents applied to it were thrust 0, turn 0, no fire and no distress call.
C10_ErrorMeansDoNothing ==
  thought.pilot # NULL /\ thought.nerr > 0 =>
    thought.acc = 0 /\ thought.turn = 0 /\ thought.flags = {}

\* C11: after pushtask the process is alive and the current pilot's chain is
\* the chain it had before, the same Task objects in the same order, with
\* the new task first for position 0 and last for position 1, whatever the
\* length of the chain before, the empty chain included.
C11_PushPutsTaskFirstOrLast ==
  last.op = "pushtask" =>
    /\ ~tasks.fault
    /\ ChainNames(tasks) =
         IF last.arg[1] = 1
         THEN Append(ChainNames(last.before), last.arg[2])
         ELSE <<last.arg[2]>> \o ChainNames(last.before)
    /\ Len(Chain(tasks)) = Len(Chain(last.before)) + 1
    /\ IF last.arg[1] = 1
       THEN SubSeq(Chain(tasks), 1, Len(Chain(last.before))) = Chain(last.before)
       ELSE Tail(Chain(tasks)) = Chain(last.before)

\* C12: after poptask on a chain with a task the head Task is freed, once,
\* and the chain is the rest of the chain before, the same Task objects with
\* the same names, all allocated; on an empty chain nothing changes; and a
\* poptask that follows a pushtask at position 0 leaves the chain as it was
\* before the push.
C12_PopFreesHeadAlone ==
  last.op = "poptask" =>
    /\ IF last.before.task = NULL THEN tasks = last.before
       ELSE /\ Chain(tasks) = Tail(Chain(last.before))
            /\ ChainNames(tasks) = Tail(ChainNames(last.before))
            /\ tasks.cell[last.before.task].mem = "freed"
            /\ \A c \in Range(Chain(tasks)) : tasks.cell[c].mem = "alloc"
            /\ tasks.dfree = last.before.dfree
    /\ (last.prior.op = "pushtask" /\ last.prior.arg[1] = 0) =>
         /\ Chain(tasks) = Chain(last.prior.before)
         /\ ChainNames(tasks) = ChainNames(last.prior.before)
         /\ \A c \in Range(Chain(tasks)) : tasks.cell[c].mem = "alloc"

\* A task was pushed at the head of a chain of two tasks and popped at once.
C12_PushedThenPopped ==
  /\ last.op = "poptask"
  /\ last.prior.op = "pushtask" /\ last.prior.arg[1] = 0
  /\ Len(Chain(last.prior.before)) = 2
  /\ Len(Chain(last.before)) = 3

\* C13: after a pilot is destroyed every Task of the chain it had is freed,
\* free() was not called on memory that was not allocated, and the task
\* pointer is null, whatever the length of the chain.
C13_DestroyFreesWholeChain ==
  last.op = "pilot_free" =>
    /\ \A c \in Range(Chain(last.before)) : tasks.cell[c].mem = "freed"
    /\ tasks.dfree = last.before.dfree
    /\ tasks.task = NULL
    /\ \A c \in Cells : tasks.cell[c].mem = "alloc" => last.before.cell[c].mem = "alloc"

\* A pilot with a chain of three tasks was destroyed.
C13_DestroyedWithThreeTasks ==
  /\ last.op = "pilot_free"
  /\ Len(Chain(last.before)) = 3
  /\ ~tasks.dfree

\* The pilot's two high slots hold weapons of the same delay.
TwinGuns(p) ==
  /\ Cardinality(HighSlots(p)) = 2
  /\ \A k \in HighSlots(p) :
       p.outfits[k].outfit # "none" /\ outfit_isBolt(p.outfits[k].outfit)
  /\ \A j, k \in HighSlots(p) :
       outfit_delay(p.outfits[j].outfit) = outfit_delay(p.outfits[k].outfit)

Lacks(p, k) ==
  LET o == p.outfits[k].outfit
      am == p.outfits[k].ammo
  IN /\ o # "none"
     /\ ~Above(p.outfits[k], 0)
     /\ \/ (outfit_isBolt(o) \/ outfit_isBeam(o)) /\ outfit_energy(o) > p.energy
        \/ /\ outfit_isLauncher(o) \/ outfit_isFighterBay(o)
           /\ am.outfit = "none" \/ am.quantity <= 0
        \/ /\ outfit_isLauncher(o)
           /\ am.outfit # "none" /\ outfit_energy(am.outfit) > p.energy

\* The energy of pilot p after the recharge of an update of length dt.
Recharged(p, dt) ==
  MIN(p.energy_max,
      p.energy + ((p.energy_max - p.energy) * ChargeFraction(p, dt)) \div 1000)

\* C15: pilot_shootWeapon on a slot whose shot the pilot lacks the energy or
\* the ammunition for leaves the pilot as it was, its energy, ammunition,
\* outfit mass and the slot's timer included, and puts nothing into the
\* world; and an update of a pilot whose afterburner is on without the
\* energy for the tick takes nothing from its energy: the pilot ends the
\* update with the energy the recharge alone gives it.
C15_NoShotNoCost ==
  /\ (last.op = "pilot_shootWeapon" /\ Lacks(last.before, last.arg[2])) =>
       /\ pilots[last.arg[1]] = last.before
       /\ last.ret = "none"
  /\ (/\ last.op = "pilot_update"
      /\ pilot_isFlag(last.before, "AFTERBURNER")
      /\ last.before.afterburner # NULL
      /\ Recharged(last.before, last.arg[2]) * 1000
           <= outfit_energy(last.before.outfits[last.before.afterburner].outfit)
              * last.arg[2]) =>
       pilots[last.arg[1]].energy = Recharged(last.before, last.arg[2])

\* A laser that is ready was fired by a pilot without the energy for it.
C15_LaserWithoutEnergy ==
  /\ last.op = "pilot_shootWeapon"
  /\ Lacks(last.before, last.arg[2])
  /\ outfit_isBolt(last.before.outfits[last.arg[2]].outfit)
  /\ last.before.energy < outfit_energy(last.before.outfits[last.arg[2]].outfit)

\* The phase indicators of the hyperspace sequence.
PhaseFlags == {"HYP_PREP", "HYP_BEGIN", "HYPERSPACE"}

\* C16: a pilot that is getting ready for the jump begins to warm its
\* engines only in a pass in which it is at rest (its speed is not above
\* the velocity threshold) and faces its way within the tolerance; a pilot
\* that was never so is neither warming nor in transit.
C16_WarmsOnlyAligned ==
  /\ (/\ last.op = "pilots_update" /\ last.ret = "hyperspace"
      /\ Preparing(last.before)
      /\ 1 \in Range(pilot_stack)
      /\ Warming(pilots[1]) \/ InTransit(pilots[1])) =>
       ~last.arg[2].moving /\ last.arg[2].facing
  /\ (1 \in Range(pilot_stack) /\ (Warming(pilots[1]) \/ InTransit(pilots[1]))) =>
       last.prior.aligned

\* A pass took the pilot from getting ready to warming.
C16_BeganToWarm ==
  /\ last.op = "pilots_update" /\ last.ret = "hyperspace"
  /\ Preparing(last.before)
  /\ 1 \in Range(pilot_stack) /\ Warming(pilots[1])

\* The pilot is not the player's, the ticks are 0.1 s long, the pilot was
\* at rest and facing its way at t0 and the jump was left alone since.
JumpRuns ==
  /\ player # 1
  /\ last.prior.dt = 100
  /\ last.prior.aligned
  /\ last.prior.steady

C18_OnePhaseFlag ==
  \A a \in Range(pilot_stack) :
    Cardinality(pilots[a].flags \cap PhaseFlags) <= 1

\* C18 as the code keeps the flags: they nest.  HYP_BEGIN is held only with
\* HYP_PREP, and HYPERSPACE only with HYP_BEGIN and HYP_PREP.
C18_PhaseFlagsNest ==
  \A a \in Range(pilot_stack) :
    /\ pilot_isFlag(pilots[a], "HYP_BEGIN") => pilot_isFlag(pilots[a], "HYP_PREP")
    /\ pilot_isFlag(pilots[a], "HYPERSPACE") => pilot_isFlag(pilots[a], "HYP_BEGIN")

\* A pilot in transit holds the three flags.
C18_AllThreeHeld ==
  /\ last.op = "pilots_update"
  /\ 1 \in Range(pilot_stack)
  /\ PhaseFlags \subseteq pilots[1].flags

\* C19: pilot_hyperspaceAbort on a pilot that is getting ready or warming
\* leaves it with no phase flag and otherwise as it was, and the next pass
\* lets the pilot think; on a pilot in transit it changes nothing.
C19_AbortEndsJumpUnlessInTransit ==
  /\ last.op = "pilot_hyperspaceAbort" =>
       IF InTransit(last.before) THEN pilots[last.arg[1]] = last.before
       ELSE /\ pilots[last.arg[1]] = [last.before EXCEPT !.flags = @ \ PhaseFlags]
            /\ ThinkMode(pilots[last.arg[1]]) = last.before.think
  /\ (/\ last.op = "pilots_update"
      /\ last.prior.prev.op = "pilot_hyperspaceAbort"
      /\ "HYPERSPACE" \notin last.prior.prev.flags) =>
       last.ret \in {"ai_think", "player_think"}

\* The jump of a warming pilot was called off and the pilot has thought in
\* the pass after.
C19_ThoughtAfterAbort ==
  /\ last.op = "pilots_update"
  /\ last.prior.prev.op = "pilot_hyperspaceAbort"
  /\ "HYP_BEGIN" \in last.prior.prev.flags
  /\ "HYPERSPACE" \notin last.prior.prev.flags
  /\ last.ret = "ai_think"

C21_ReturnsAbsorbedDamage ==
  last.op = "pilot_hit" =>
    last.ret.dmg = (last.before.shield + last.before.armour)
                   - (pilots[last.arg[1]].shield + pilots[last.arg[1]].armour)

\* C22: whenever a pilot carries the disabled flag, its armour is below
\* PILOT_DISABLED_ARMOR times its armour_max, after any sequence of hits,
\* updates and outfit changes.
C22_DisabledMeansArmourBelowThreshold ==
  \A a \in Registered :
    pilot_isDisabled(pilots[a]) =>
      pilots[a].armour * 100 < PILOT_DISABLED_ARMOR * pilots[a].armour_max

C27_StatsStaySane ==
  (/\ last.op \in {"pilot_addOutfit", "pilot_rmOutfit"}
   /\ last.ret = 0
   /\ pilot_checkSanity(last.before) = "ok") =>
    pilot_checkSanity(pilots[last.arg[1]]) = "ok"


\* C28: when pilot_addOutfit or pilot_rmOutfit rejects a change (returns
\* -1), the pilot is field for field what it was before the call: slots,
\* CPU, derived stats, masses, secondary and afterburner.
C28_RejectedChangesNothing ==
  (/\ last.op \in {"pilot_addOutfit", "pilot_rmOutfit"}
   /\ last.ret = -1) =>
    pilots[last.arg[1]] = last.before

\* An outfit was offered to a free slot and pilot_canEquip turned it down.
C28_RefusedByCanEquip ==
  /\ last.op = "pilot_addOutfit"
  /\ last.ret = -1
  /\ last.before.outfits[last.arg[3]].outfit = "none"
  /\ pilot_canEquip(last.before, last.arg[3], last.arg[2], TRUE) # "ok"


\* C29: the stages of a death sequence come in the stated order whatever
\* the tick length: a dying pilot has exploded and shed its cargo only after
\* its sound was played, and is flagged for deletion only after it has
\* exploded and shed its cargo.
C29_DeathStagesInOrder ==
  \A k \in 1..Len(pilot_stack) :
    LET p == pilots[pilot_stack[k]]
    IN pilot_isFlag(p, "DEAD") =>
         /\ pilot_isFlag(p, "EXPLODED") => pilot_isFlag(p, "DEATH_SOUND")
         /\ pilot_isFlag(p, "DELETE") => pilot_isFlag(p, "EXPLODED")


\* C30: an update of a pilot that is dead or disabled, the player's or
\* another, regenerates nothing: its armour, shield and energy are no higher
\* after the update than before.
C30_NoRegenWhenDeadOrDisabled ==
  (/\ last.op = "pilot_update"
   /\ \/ pilot_isFlag(last.before, "DEAD")
      \/ pilot_isFlag(last.before, "DISABLED")) =>
    /\ pilots[last.arg[1]].armour <= last.before.armour
    /\ pilots[last.arg[1]].shield <= last.before.shield
    /\ pilots[last.arg[1]].energy <= last.before.energy


\* C25: after any sequence of updates, weapon firings and afterburner use,
\* every pilot's energy, armour and shield lie between 0 and their maxima.
C25_LevelsWithinBounds ==
  \A k \in 1..Len(pilot_stack) :
    LET p == pilots[pilot_stack[k]]
    IN /\ 0 <= p.energy /\ p.energy <= p.energy_max
       /\ 0 <= p.armour /\ p.armour <= p.armour_max
       /\ 0 <= p.shield /\ p.shield <= p.shield_max

\* An update in which the afterburner took more energy than the recharge
\* gave, with too little left for another such tick, and the regenerating
\* shield was held at its maximum.
C25_BurntLowShieldFull ==
  /\ last.op = "pilot_update"
  /\ pilot_isFlag(last.before, "AFTERBURNER")
  /\ pilots[last.arg[1]].energy < last.before.energy
  /\ pilots[last.arg[1]].energy * 1000
       <= outfit_energy("burner") * last.arg[2]
  /\ pilots[last.arg[1]].shield_regen > 0
  /\ pilots[last.arg[1]].shield = pilots[last.arg[1]].shield_max


\* C26: after any sequence of pilot_refuelStart calls and updates in which
\* pilot_refuel runs, from any fuel levels within their range, every
\* pilot's fuel lies between 0 and its fuel_max, the giver's and the
\* target's alike.
C26_FuelWithinBounds ==
  \A k \in 1..Len(pilot_stack) :
    LET p == pilots[pilot_stack[k]]
    IN 0 <= p.fuel /\ p.fuel <= p.fuel_max


\* C31: an update lowers every timer of the pilot by exactly dt, whatever
\* the timer holds: the general timer, the control timer, each AI timer and
\* the cooldown of each slot.  (The general and the control timer are
\* followed down to -TimerCap.)
C31_EveryTimerRunsByDt ==
  (/\ last.op = "pilot_update"
   /\ ~pilot_isFlag(last.before, "DEAD")
   /\ last.before.armour > 0) =>
    LET p == pilots[last.arg[1]]
        b == last.before
        dt == last.arg[2]
    IN /\ p.ptimer = SatTimer(b.ptimer - dt)
       /\ p.tcontrol = SatTimer(b.tcontrol - dt)
       /\ \A k \in 1..MAX_AI_TIMERS : p.timer[k] = b.timer[k] - dt
       /\ \A k \in 1..Len(b.outfits) : p.outfits[k].timer = b.outfits[k].timer - dt


\* C34: a timer that the script has set to a positive duration, and does not
\* set again, runs out while the pilot keeps being updated: timeup(n)
\* becomes true, whatever the duration and the tick length.
C34_TimerRunsOut ==
  \A n \in 0..(MAX_AI_TIMERS - 1) :
    (n \in last.prior.set) ~> (pilot_timer(pilots[1], n) < 0)


\* pilot_rmCargo of N units has just followed pilot_addCargo of N units of
\* the same commodity to the same pilot.
AddThenRm ==
  /\ last.op = "pilot_rmCargo"
  /\ last.prior.op = "pilot_addCargo"
  /\ last.prior.arg = last.arg

\* C32 as claimed: pilot_addCargo of N units followed by pilot_rmCargo of N
\* units of the commodity leaves cargo_free at its value before the add,
\* for every ledger, every free space and every N >= 0.
C32_AddThenRmRestoresFree ==
  AddThenRm => pilots[last.arg[1]].cargo_free = last.prior.before.cargo_free

\* C32, amended: pilot_addCargo of N units followed by pilot_rmCargo of N
\* units of the commodity leaves cargo_free at its value before the add
\* whenever the N units fitted, 0 <= N <= cargo_free before the add.
C32_AddThenRmRestoresFreeWhenFits ==
  (/\ AddThenRm
   /\ last.arg[3] <= last.prior.before.cargo_free) =>
    pilots[last.arg[1]].cargo_free = last.prior.before.cargo_free

\* Two units were added to a pilot that held the commodity as ordinary and
\* as mission cargo, they fitted, and two units were removed.
C32_AddedAndRemovedBesideMission ==
  /\ AddThenRm
  /\ last.arg[3] = 2
  /\ last.prior.ret = 2
  /\ \E k \in 1..Len(last.prior.before.commodities) :
       /\ last.prior.before.commodities[k].id = 0
       /\ last.prior.before.commodities[k].quantity > 0
       /\ \E j \in 1..(k - 1) : last.prior.before.commodities[j].id # 0

\* The registered pilots that carry the hostile flag and are not disabled.
HostileAndAble ==
  {a \in Range(pilot_stack) :
     pilot_isFlag(pilots[a], "HOSTILE") /\ ~pilot_isDisabled(pilots[a])}

\* C33: after any sequence of pilot_setHostile, pilot_rmHostile,
\* pilot_setFriendly, hits and destructions, player_enemies is the number of
\* registered pilots that carry the hostile flag and are not disabled.
C33_EnemiesCountHostileAndAble == player_enemies = Cardinality(HostileAndAble)

\* C35: after pilots_clean the registry is the player alone, at position 0,
\* when there is a player, and empty when there is none; no freed pilot is
\* registered.
C35_CleanLeavesPlayerAlone ==
  last.op = "pilots_clean" =>
    /\ pilot_stack = (IF last.before.player # NULL
                      THEN <<last.before.player>> ELSE <<>>)
    /\ \A a \in Range(pilot_stack) : pilots[a].mem # "freed"

\* C36: after pilot_moveCargo has returned 0 the destination holds every
\* entry the source held, with its quantity, and every entry it held itself,
\* and the source holds none; when the cargo does not fit the call returns
\* -1 and changes neither pilot.
C36_MoveCargoKeepsBoth ==
  last.op = "pilot_moveCargo" =>
    LET d == pilots[last.arg[1]]
        s == pilots[last.arg[2]]
    IN IF pilot_cargoUsed(last.before.src) > pilot_cargoFree(last.before.dest)
          /\ last.before.src.commodities # <<>>
       THEN last.ret = -1 /\ d = last.before.dest /\ s = last.before.src
       ELSE /\ last.ret = 0
            /\ Range(last.before.src.commodities) \subseteq Range(d.commodities)
            /\ Range(last.before.dest.commodities) \subseteq Range(d.commodities)
            /\ s.commodities = <<>>

\* C37: whenever pilot_update runs for a pilot whose afterburner flag is
\* set, the pilot's afterburner reference is one of its slots and the slot
\* holds an afterburner.
C37_BurningHasAfterburner ==
  (last.op = "pilot_update" /\ pilot_isFlag(last.before, "AFTERBURNER")) =>
    /\ last.before.afterburner \in 1..Len(last.before.outfits)
    /\ last.before.outfits[last.before.afterburner].outfit # "none"
    /\ outfit_isAfterburner(last.before.outfits[last.before.afterburner].outfit)

\* C38: a registered pilot flagged DEAD, whatever flags it carried when it
\* died, has as the passes go on been flagged DELETE and taken out of the
\* registry.
C38_DeadIsDeletedAndRemoved ==
  (1 \in Range(pilot_stack) /\ pilot_isFlag(pilots[1], "DEAD"))
    ~> (1 \notin Range(pilot_stack) /\ pilot_isFlag(pilots[1], "DELETE"))

\* A pilot that died while it was refuelling another has been taken out of
\* the registry and freed.
C38_DeadRefuellerRemoved ==
  \E a \in Addrs :
    /\ a \notin Range(pilot_stack)
    /\ pilots[a].mem = "freed"
    /\ {"DEAD", "DELETE", "REFUELBOARDING"} \subseteq pilots[a].flags

\* The fighter bays of the registered pilots, as <<address, slot>>.
FighterBays ==
  {x \in Addrs \X (1..3) :
     /\ x[1] \in Range(pilot_stack)
     /\ x[2] <= Len(pilots[x[1]].outfits)
     /\ pilots[x[1]].outfits[x[2]].outfit # "none"
     /\ outfit_isFighterBay(pilots[x[1]].outfits[x[2]].outfit)}

\* C39: in every fighter bay the fighters stored and the fighters deployed
\* are not negative and together no more than the bay holds, after launches,
\* dockings that succeed or fail, pilot_addAmmo and pilot_rmAmmo, and
\* between them the fitting and removal of bays.
C39_BaysWithinCapacity ==
  \A x \in FighterBays :
    LET bay == pilots[x[1]].outfits[x[2]]
    IN /\ bay.ammo.quantity >= 0
       /\ bay.ammo.deployed >= 0
       /\ bay.ammo.quantity + bay.ammo.deployed <= outfit_amount(bay.outfit)

\* A fighter that was launched has docked on its carrier and is stored in
\* the bay again.
C39_FighterBackInBay ==
  /\ last.op = "pilot_dock"
  /\ last.ret = 0
  /\ last.arg[3]
  /\ \E x \in FighterBays :
       /\ x[1] = last.arg[2]
       /\ pilots[x[1]].outfits[x[2]].ammo.quantity = 1
       /\ last.before.outfits[x[2]].ammo.deployed = 1

\* C40: pilot_switchSecondary(p, w) makes w the secondary weapon of p and
\* leaves the secondary weapon of every other pilot, the player's too, as it
\* was.
C40_SwitchSetsOwnSecondaryOnly ==
  last.op = "pilot_switchSecondary" =>
    /\ pilots[last.arg[1]].secondary = last.arg[2]
    /\ \A b \in Range(pilot_stack) \ {last.arg[1]} :
         pilots[b].secondary = last.before[b].secondary
=========================================================================
